---- MODULE Spec2Model ----
(***************************************************************************)
(* Verification model of the city-scrapers-tulsa harvesters.               *)
(*                                                                         *)
(*   - the Tulsa city mixin (city_scrapers/mixins/tulsa_city.py):          *)
(*     start_requests -> parse_upcoming (filter_meetings_data) -> parse    *)
(*   - the Union PS spider (city_scrapers/spiders/tulok_unionps.py):       *)
(*     parse_board_page with its dependent Board Report fetches            *)
(*   - the BOCC spider (city_scrapers/spiders/tulok_bocc.py):              *)
(*     start_requests -> parse with @odata.nextLink pagination             *)
(*                                                                         *)
(* A text is a sequence of lexemes (tokens); " " is the whitespace lexeme. *)
(* Python's None and a key that is absent from a dict are the two sentinel *)
(* texts None and Absent, which no real text equals.                       *)
(***************************************************************************)
EXTENDS Integers, Sequences, FiniteSets, TLC

VARIABLES
    \* ---- Tulsa city mixin
    pc,             \* position of the Tulsa harvest
    response,       \* the API response: [ok, container, data |-> Seq(fragment)]
    listing,        \* the rows of the "upcoming" HTML table
    api_data,       \* meta["api_data"]: what filter_meetings_data returned
    meetings_data,  \* parse: upcoming_meetings + api_url_meetings
    idx,            \* parse: index of the next element of meetings_data
    emitted,        \* the meetings yielded by parse so far
    parsed,         \* the indexes of meetings_data handed to _parse_meeting
    now,            \* datetime.now() of the run
    \* ---- Union PS spider
    upc,            \* position of parse_board_page
    sources,        \* _collect_sources(main_page)
    pos,            \* parse_board_page: index of the next source entry
    seen_dates,     \* parse_board_page: seen_dates
    fetches,        \* per source entry: the state of its Board Report request
    uemitted,       \* the meetings yielded so far, in order
    \* ---- BOCC spider
    pages,          \* the source: query -> its pages, each [events, next]
    queue,          \* the requests the scheduler accepted, not yet resolved
    seen_urls,      \* the scheduler's duplicate filter
    bemitted,       \* the meetings yielded so far, in order
    log,            \* per call of parse: the url and what it yielded, in order
    \* ---- BOED spider
    ed_pc,          \* position of parse
    ed_data,        \* response.json(): the meeting objects of the API
    ed_idx,         \* parse: index of the next element of data
    ed_emitted,     \* the meetings yielded so far, in order
    \* ---- City Council (Granicus) spider
    cc_pc,          \* position of parse
    cc_rows,        \* the rows of the year panels, then of the upcoming table
    cc_idx,         \* index of the next row
    cc_emitted,     \* the meetings yielded so far, in order
    \* ---- one call of a function of the pipeline
    arguments,      \* the function called and what it is called with
    returned        \* what the call returned; NotCalled before it

vars == <<pc, response, listing, api_data, meetings_data, idx, emitted, parsed, now,
          upc, sources, pos, seen_dates, fetches, uemitted,
          pages, queue, seen_urls, bemitted, log,
          ed_pc, ed_data, ed_idx, ed_emitted,
          cc_pc, cc_rows, cc_idx, cc_emitted,
          arguments, returned>>

tulsaVars == <<pc, response, listing, api_data, meetings_data, idx, emitted, parsed, now>>
unionVars == <<upc, sources, pos, seen_dates, fetches, uemitted>>
boccVars  == <<pages, queue, seen_urls, bemitted, log>>
boedVars  == <<ed_pc, ed_data, ed_idx, ed_emitted>>
councilVars == <<cc_pc, cc_rows, cc_idx, cc_emitted>>
callVars  == <<arguments, returned>>

(***************************************************************************)
(* Bounds of the model.                                                    *)
(***************************************************************************)
MaxApi == 3         \* fragments in one API response
MaxSources == 3     \* entries of the Union PS agendas page
MaxPages == 2       \* pages the source serves for one BOCC query

(***************************************************************************)
(* Texts.                                                                  *)
(***************************************************************************)
None   == <<"<None>">>
Absent == <<"<absent>">>
Empty  == << >>
SP     == " "

IsText(v) == v # None /\ v # Absent

\* dict.get(key, default): the default only when the key is absent; a key
\* that is present with a null value gives None.
Get(item, key, default) == IF item[key] = Absent THEN default ELSE item[key]

RECURSIVE LStrip(_)
LStrip(s) == IF s # Empty /\ Head(s) = SP THEN LStrip(Tail(s)) ELSE s

RECURSIVE RStrip(_)
RStrip(s) ==
    IF s # Empty /\ s[Len(s)] = SP THEN RStrip(SubSeq(s, 1, Len(s) - 1)) ELSE s

\* str.strip()
Strip(s) == RStrip(LStrip(s))

\* Python truthiness of a text value: None and "" are falsy.
Truthy(v) == v # None /\ v # Absent /\ v # Empty

\* `word in text`, on lexemes.
Contains(text, word) == \E i \in 1..Len(text) : text[i] = word

(***************************************************************************)
(* Dates and times.  A datetime is [day, hour, minute]; NoDT is None.      *)
(***************************************************************************)
NoDT == [day |-> -1, hour |-> 0, minute |-> 0]

\* datetime.strptime(text, "%m/%d/%Y"): the day it denotes, -1 for ValueError.
StrptimeDate(s) ==
    CASE s = <<"11/20/2025">> -> 20
      [] s = <<"11/21/2025">> -> 21
      [] OTHER -> -1

\* datetime.strptime(text, "%I:%M%p"): <<hour, minute>>, << >> for ValueError.
\* The format holds no whitespace, so "5:00 PM" does not match it.
StrptimeTime(s) ==
    CASE s = <<"11:30", "AM">> -> <<11, 30>>
      [] s = <<"5:00", "PM">>  -> <<17, 0>>
      [] OTHER -> << >>

(***************************************************************************)
(* Agency matcher (TulsaCityMixin.__init__, _is_agency_match).             *)
(***************************************************************************)
STOP_WORDS ==
    {"of", "the", "for", "in", "at", "to", "a", "an", "and", "or", "city",
     "tulsa", "area", "greater", "commission", "committee", "board",
     "authority", "trust", "affairs"}

\* str.lower() of one lexeme.
Lower(w) ==
    CASE w = "Audit" -> "audit"         [] w = "Committee" -> "committee"
      [] w = "Meeting" -> "meeting"     [] w = "Special" -> "special"
      [] w = "Regular" -> "regular"     [] w = "Council" -> "council"
      [] w = "Of" -> "of"               [] w = "The" -> "the"
      [] w = "City" -> "city"           [] w = "Tulsa" -> "tulsa"
      [] w = "Annual" -> "annual"       [] w = "Arts" -> "arts"
      [] w = "Commission" -> "commission"
      [] w = "Emergency" -> "emergency" [] w = "Budget" -> "budget"
      [] w = "Cancelled" -> "cancelled" [] w = "Canceled" -> "canceled"
      [] w = "CANCELLED" -> "cancelled" [] w = "Reschedule" -> "reschedule"
      [] w = "Rescheduled" -> "rescheduled" [] w = "Postponed" -> "postponed"
      [] w = "Tentative" -> "tentative" [] w = "TENTATIVE" -> "tentative"
      [] w = "REGULAR" -> "regular"     [] w = "Board" -> "board"
      [] w = "Development" -> "development" [] w = "Urban" -> "urban"
      [] w = "Update" -> "update"       [] w = "Authority" -> "authority"
      [] w = "Community" -> "community" [] w = "Planning" -> "planning"
      [] w = "Port" -> "port"           [] w = "Rogers" -> "rogers"
      [] w = "County" -> "county"       [] w = "Stadium" -> "stadium"
      [] w = "Trust" -> "trust"         [] w = "AUDIT" -> "audit"
      [] w = "Budget" -> "budget"       [] w = "Finance" -> "finance"
      [] w = "Advisory" -> "advisory"   [] w = "Subcommittee" -> "subcommittee"
      [] OTHER -> w

\* set(text.replace("-", " ").lower().split())
WordSet(text) ==
    {Lower(text[i]) : i \in {j \in 1..Len(text) : text[j] # SP /\ text[j] # "-"}}

\* self.agency_keywords
AgencyKeywords(agency) == WordSet(agency) \ STOP_WORDS

Min(a, b) == IF a <= b THEN a ELSE b

\* _is_agency_match asking for two shared keywords of every agency
IsAgencyMatchTwoRequired(name, agency, title) ==
    LET row_title == WordSet(title)
        s1 == {"regular", "council", "meeting"}
        s2 == {"council", "meeting", "special"}
        row_keywords == row_title \ STOP_WORDS
        title_match == row_keywords \cap AgencyKeywords(agency)
    IN  IF name = "tulok_city_council"
        THEN row_title \subseteq s1 \/ row_title \subseteq s2
        ELSE Cardinality(title_match) >= 2

\* _is_agency_match
IsAgencyMatch(name, agency, title) ==
    LET row_title == WordSet(title)
        s1 == {"regular", "council", "meeting"}
        s2 == {"council", "meeting", "special"}
        row_keywords == row_title \ STOP_WORDS
        title_match == row_keywords \cap AgencyKeywords(agency)
        min_matches == Min(2, Cardinality(AgencyKeywords(agency)))
    IN  IF name = "tulok_city_council"
        THEN row_title \subseteq s1 \/ row_title \subseteq s2
        ELSE Cardinality(title_match) >= min_matches

\* The spider the Tulsa pipeline is run for (spider_configs[0]).
SpiderName == "tulok_audit_committee"
SpiderAgency ==
    <<"Audit", SP, "Committee", SP, "of", SP, "the", SP, "City", SP, "of", SP, "Tulsa">>

(***************************************************************************)
(* The upcoming listing (_get_upcoming_meetings and its helpers).          *)
(* A row is [title, date_text, agenda, video]: the Name cell (None when    *)
(* the cell holds no text), the normalized Date cell, and the numbers of   *)
(* its AgendaViewer and MediaPlayer links (0: the row has none).           *)
(***************************************************************************)
\* datetime.strptime(date_text, "%B %d, %Y - %I:%M %p"), NoDT for ValueError
StrptimeUpcoming(s) ==
    CASE s = <<"November", SP, "20,", SP, "2025", SP, "-", SP, "11:30", SP, "AM">>
            -> [day |-> 20, hour |-> 11, minute |-> 30]
      [] s = <<"November", SP, "21,", SP, "2025", SP, "-", SP, "5:00", SP, "PM">>
            -> [day |-> 21, hour |-> 17, minute |-> 0]
      [] OTHER -> NoDT

ParseUpcomingMeetingDate(row) ==
    IF ~Truthy(row.date_text) \/ Contains(row.date_text, "In Progress")
    THEN NoDT
    ELSE StrptimeUpcoming(row.date_text)   \* a ValueError is caught: None

ExtractUpcomingMeetingData(row) ==
    [Meeting_Date      |-> Absent,
     Meeting_Time      |-> Absent,
     Meeting_Type      |-> IF "special" \in {Lower(row.title[i]) : i \in 1..Len(row.title)}
                           THEN <<"Special">> ELSE <<"Regular">>,
     Board_Name        |-> SpiderAgency,
     Agenda_ID         |-> 0,
     Agenda_Link       |-> row.agenda,
     Video_Link        |-> row.video,
     Meeting_Date_Time |-> ParseUpcomingMeetingDate(row)]

RECURSIVE GetUpcomingMeetings(_)
GetUpcomingMeetings(rows) ==
    IF rows = << >> THEN << >>
    ELSE LET row == Head(rows)
             rest == GetUpcomingMeetings(Tail(rows))
         IN  IF ~Truthy(row.title) THEN rest
             ELSE IF ~IsAgencyMatch(SpiderName, SpiderAgency, row.title) THEN rest
             ELSE <<ExtractUpcomingMeetingData(row)>> \o rest

(***************************************************************************)
(* filter_meetings_data.                                                   *)
(***************************************************************************)
\* .get(...).strip() raises AttributeError on a null Meeting_Date/Meeting_Time
StripRaises(f) ==
    \/ Get(f, "Meeting_Date", Empty) = None
    \/ Get(f, "Meeting_Time", Empty) = None

\* date_time_str of the fragment being read (lines 248-251)
DateTimeStr(f) ==
    LET date_str == Strip(Get(f, "Meeting_Date", Empty))
        time_str == Strip(Get(f, "Meeting_Time", Empty))
    IN  IF time_str # Empty THEN date_str \o <<SP>> \o time_str ELSE date_str

\* the key computed for meetings[-1] (lines 254-256)
LastKey(m) ==
    Strip(Get(m, "Meeting_Date", Empty)) \o <<SP>> \o Strip(Get(m, "Meeting_Time", Empty))

\* line 253 comparing with meetings[0] instead of meetings[-1]
SameAsFirst(meetings, f) ==
    meetings # << >> /\ LastKey(meetings[1]) = DateTimeStr(f)

\* line 253 comparing with every fragment kept so far
SameAsAnyKept(meetings, f) ==
    \E k \in 1..Len(meetings) : LastKey(meetings[k]) = DateTimeStr(f)

\* the condition of line 253
SameAsLast(meetings, f) ==
    meetings # << >> /\ LastKey(meetings[Len(meetings)]) = DateTimeStr(f)

\* the loop of lines 247-261 from element i on; [ok |-> FALSE] when an
\* exception is raised in it
RECURSIVE FilterLoop(_, _, _)
FilterLoop(data, i, meetings) ==
    IF i > Len(data) THEN [ok |-> TRUE, meetings |-> meetings]
    ELSE IF StripRaises(data[i]) THEN [ok |-> FALSE, meetings |-> << >>]
    ELSE IF SameAsLast(meetings, data[i])
         THEN FilterLoop(data, i + 1, [meetings EXCEPT ![Len(meetings)] = data[i]])
         ELSE FilterLoop(data, i + 1, Append(meetings, data[i]))

\* filter_meetings_data reading the list out of a JSON object that wraps it
FilterMeetingsDataUnwrapped(resp) ==
    IF ~resp.ok THEN << >>
    ELSE LET r == FilterLoop(resp.data, 1, << >>)
         IN  IF r.ok THEN r.meetings ELSE << >>

\* filter_meetings_data(response): response.json() raising, or any exception
\* of the loop, is caught and [] returned.  Iterating a JSON object gives its
\* keys, and a str has no .get: an AttributeError, caught as well.
FilterMeetingsData(resp) ==
    IF ~resp.ok THEN << >>
    ELSE IF resp.container # "list" THEN << >>
    ELSE LET r == FilterLoop(resp.data, 1, << >>)
         IN  IF r.ok THEN r.meetings ELSE << >>


(***************************************************************************)
(* _parse_meeting and its parts.  A result is [raised, value].             *)
(***************************************************************************)
Before(a, b) ==
    \/ a.day < b.day
    \/ a.day = b.day /\ a.hour < b.hour
    \/ a.day = b.day /\ a.hour = b.hour /\ a.minute < b.minute

\* _parse_title
ParseTitle(item) ==
    LET board_name == Get(item, "Board_Name", Empty)
        meeting_type == Get(item, "Meeting_Type", Empty)
    IN  IF Truthy(meeting_type) /\ meeting_type # <<"Regular">> /\ meeting_type # <<"regular">>
        THEN board_name \o <<SP, "-", SP>> \o meeting_type
        ELSE IF Truthy(board_name) THEN board_name ELSE SpiderAgency

\* _parse_start that rejects a record whose time cannot be read: it answers
\* None where the code falls back on the date alone
ParseStartTimeRequired(item) ==
    LET date_str == Get(item, "Meeting_Date", Empty)
        time_str == Get(item, "Meeting_Time", Empty)
        day == StrptimeDate(Strip(date_str))
        hm == IF Truthy(time_str) THEN StrptimeTime(Strip(time_str)) ELSE << >>
    IN  IF item.Meeting_Date_Time # NoDT
        THEN [raised |-> FALSE, value |-> item.Meeting_Date_Time]
        ELSE IF ~Truthy(date_str) THEN [raised |-> FALSE, value |-> NoDT]
        ELSE IF day = -1 THEN [raised |-> TRUE, value |-> NoDT]
        ELSE IF hm # << >>
             THEN [raised |-> FALSE, value |-> [day |-> day, hour |-> hm[1], minute |-> hm[2]]]
             ELSE [raised |-> FALSE, value |-> NoDT]

\* _parse_start
ParseStart(item) ==
    LET date_str == Get(item, "Meeting_Date", Empty)
        time_str == Get(item, "Meeting_Time", Empty)
        day == StrptimeDate(Strip(date_str))
        hm == IF Truthy(time_str) THEN StrptimeTime(Strip(time_str)) ELSE << >>
    IN  IF item.Meeting_Date_Time # NoDT
        THEN [raised |-> FALSE, value |-> item.Meeting_Date_Time]
        ELSE IF ~Truthy(date_str) THEN [raised |-> FALSE, value |-> NoDT]
        ELSE IF day = -1 THEN [raised |-> TRUE, value |-> NoDT]      \* ValueError
        ELSE IF hm # << >>
             THEN [raised |-> FALSE, value |-> [day |-> day, hour |-> hm[1], minute |-> hm[2]]]
             ELSE [raised |-> FALSE, value |-> [day |-> day, hour |-> 0, minute |-> 0]]

\* _parse_links with identity-based suppression: the anchor of the listing is
\* left out when a document identifier already gives an agenda link
ParseLinksSuppressing(item) ==
    (IF item.Agenda_ID # 0
     THEN <<[title |-> "Agenda", href |-> [kind |-> "DocumentIdentifiers", ref |-> item.Agenda_ID]]>>
     ELSE IF item.Agenda_Link # 0
     THEN <<[title |-> "Agenda", href |-> [kind |-> "AgendaViewer", ref |-> item.Agenda_Link]]>>
     ELSE << >>)
    \o (IF item.Video_Link # 0
        THEN <<[title |-> "Video", href |-> [kind |-> "MediaPlayer", ref |-> item.Video_Link]]>>
        ELSE << >>)

\* _parse_links
ParseLinks(item) ==
    (IF item.Agenda_ID # 0
     THEN <<[title |-> "Agenda", href |-> [kind |-> "DocumentIdentifiers", ref |-> item.Agenda_ID]]>>
     ELSE << >>)
    \o (IF item.Agenda_Link # 0
        THEN <<[title |-> "Agenda", href |-> [kind |-> "AgendaViewer", ref |-> item.Agenda_Link]]>>
        ELSE << >>)
    \o (IF item.Video_Link # 0
        THEN <<[title |-> "Video", href |-> [kind |-> "MediaPlayer", ref |-> item.Video_Link]]>>
        ELSE << >>)

\* `sub in word.lower()` for one lexeme of a meeting type or title
HasSub(w, sub) ==
    CASE sub = "cancel"      -> Lower(w) \in {"cancel", "canceled", "cancelled"}
      [] sub = "reschedule"  -> Lower(w) \in {"reschedule", "rescheduled"}
      [] sub = "rescheduled" -> Lower(w) \in {"rescheduled"}
      [] sub = "postpone"    -> Lower(w) \in {"postpone", "postponed"}
      [] sub = "committee"   -> Lower(w) \in {"committee", "subcommittee"}
      [] OTHER               -> Lower(w) = sub

AnySub(text, subs) == \E i \in 1..Len(text) : \E sub \in subs : HasSub(text[i], sub)

\* CityScrapersSpider._get_status, reached through super()._get_status(item):
\* the cancellation words are looked for in title and description, then
\* item["start"] < datetime.now(), a TypeError when start is None
BaseGetStatus(title, start, t) ==
    IF AnySub(title, {"cancel", "rescheduled", "postpone"})
    THEN [raised |-> FALSE, value |-> "cancelled"]
    ELSE IF start = NoDT THEN [raised |-> TRUE, value |-> "none"]
    ELSE [raised |-> FALSE, value |-> IF Before(start, t) THEN "passed" ELSE "tentative"]

\* _get_status with the special/regular rule tried before the cancellation
\* words
GetStatusSpecialFirst(title, start, text, t) ==
    IF ~Truthy(text) THEN BaseGetStatus(title, start, t)
    ELSE IF AnySub(text, {"special", "regular"})
         THEN IF start = NoDT THEN [raised |-> TRUE, value |-> "none"]
              ELSE [raised |-> FALSE,
                    value |-> IF Before(start, t) THEN "passed" ELSE "tentative"]
    ELSE IF AnySub(text, {"cancel", "reschedule", "postpone"})
         THEN [raised |-> FALSE, value |-> "cancelled"]
    ELSE BaseGetStatus(title, start, t)

\* _get_status with a rule for "tentative" between the cancellation words
\* and the special/regular rule
GetStatusTentativeRule(title, start, text, t) ==
    IF ~Truthy(text) THEN BaseGetStatus(title, start, t)
    ELSE IF AnySub(text, {"cancel", "reschedule", "postpone"})
         THEN [raised |-> FALSE, value |-> "cancelled"]
    ELSE IF AnySub(text, {"tentative"})
         THEN [raised |-> FALSE, value |-> "tentative"]
    ELSE IF AnySub(text, {"special", "regular"})
         THEN IF start = NoDT THEN [raised |-> TRUE, value |-> "none"]
              ELSE [raised |-> FALSE,
                    value |-> IF Before(start, t) THEN "passed" ELSE "tentative"]
    ELSE BaseGetStatus(title, start, t)

\* _get_status
GetStatus(title, start, text, t) ==
    IF ~Truthy(text) THEN BaseGetStatus(title, start, t)
    ELSE IF AnySub(text, {"cancel", "reschedule", "postpone"})
         THEN [raised |-> FALSE, value |-> "cancelled"]
    ELSE IF AnySub(text, {"special", "regular"})
         THEN IF start = NoDT THEN [raised |-> TRUE, value |-> "none"]   \* None < datetime
              ELSE [raised |-> FALSE,
                    value |-> IF Before(start, t) THEN "passed" ELSE "tentative"]
    ELSE BaseGetStatus(title, start, t)

\* The title as _get_id writes it: every run of characters that are no
\* letters or digits (blanks, hyphens) is one separator, the words are
\* lower-cased.
UnderscoreTitle(title) ==
    LET words == SelectSeq(title, LAMBDA w : w \notin {SP, "-"})
    IN  [k \in 1..Len(words) |-> Lower(words[k])]

\* CityScrapersSpider._get_id, called at line 285 without an identifier:
\* name/start/x/title.  item["start"].strftime(...) is an AttributeError
\* when start is None
GetId(title, start) ==
    IF start = NoDT THEN [raised |-> TRUE, value |-> << >>]
    ELSE [raised |-> FALSE, value |-> <<SpiderName, start, "x", UnderscoreTitle(title)>>]

\* _parse_meeting passing the document identifier of the record to _get_id
ParseMeetingIdentified(item, t) ==
    LET title == ParseTitle(item)
        start == ParseStart(item)
        status == GetStatus(title, start.value, Get(item, "Meeting_Type", Empty), t)
        id == GetId(title, start.value)
    IN  IF start.raised \/ status.raised \/ id.raised
        THEN [raised |-> TRUE, value |-> << >>]
        ELSE [raised |-> FALSE,
              value |-> [title |-> title, start |-> start.value,
                         links |-> ParseLinks(item), status |-> status.value,
                         id |-> [id.value EXCEPT ![3] = item.Agenda_ID]]]

\* _parse_meeting
ParseMeeting(item, t) ==
    LET title == ParseTitle(item)
        start == ParseStart(item)
        status == GetStatus(title, start.value, Get(item, "Meeting_Type", Empty), t)
        id == GetId(title, start.value)
    IN  IF start.raised \/ status.raised \/ id.raised
        THEN [raised |-> TRUE, value |-> << >>]
        ELSE [raised |-> FALSE,
              value |-> [title |-> title, start |-> start.value,
                         links |-> ParseLinks(item), status |-> status.value,
                         id |-> id.value]]


(***************************************************************************)
(* Inputs of the Tulsa harvest.                                            *)
(***************************************************************************)
D1 == <<"11/20/2025">>
D2 == <<"11/21/2025">>
T1 == <<"11:30", "AM">>
T2 == <<"5:00", "PM">>

\* The shapes an element of the API response takes: well-formed ones, and
\* the malformed ones (null or missing or unparseable date, null type).
ApiShapes ==
    {[date |-> D1,              time |-> T1,     type |-> <<"Regular">>],
     [date |-> D1,              time |-> T2,     type |-> <<"Regular">>],
     [date |-> D2,              time |-> T1,     type |-> <<"Special">>],
     [date |-> <<SP>> \o D1,    time |-> T1,     type |-> <<"Regular">>],
     [date |-> D1,              time |-> Empty,  type |-> <<"Regular">>],
     [date |-> D1,              time |-> Absent, type |-> <<"Regular">>],
     [date |-> D1,              time |-> T1,     type |-> <<"Annual">>],
     [date |-> None,            time |-> T1,     type |-> <<"Regular">>],
     [date |-> Absent,          time |-> Absent, type |-> <<"Regular">>],
     [date |-> <<"13/45/2025">>, time |-> T1,    type |-> <<"Regular">>],
     [date |-> D1,              time |-> T1,     type |-> None]}

\* The i-th element of the API response; every element has its own Agenda_ID.
ApiFragment(shape, i) ==
    [Meeting_Date      |-> shape.date,
     Meeting_Time      |-> shape.time,
     Meeting_Type      |-> shape.type,
     Board_Name        |-> <<"Audit", SP, "Committee">>,
     Agenda_ID         |-> 31464 + i,
     Agenda_Link       |-> 0,
     Video_Link        |-> 0,
     Meeting_Date_Time |-> NoDT]

UpcomingD1 == <<"November", SP, "20,", SP, "2025", SP, "-", SP, "11:30", SP, "AM">>
UpcomingD2 == <<"November", SP, "21,", SP, "2025", SP, "-", SP, "5:00", SP, "PM">>

\* The upcoming tables the harvest is run against.
Listings ==
    {<< >>,
     <<[title |-> <<"Audit", SP, "Committee", SP, "Meeting">>,
        date_text |-> UpcomingD1, agenda |-> 7, video |-> 0]>>,
     <<[title |-> <<"Audit", SP, "Committee">>,
        date_text |-> <<"In Progress">>, agenda |-> 0, video |-> 8]>>,
     <<[title |-> None, date_text |-> UpcomingD1, agenda |-> 0, video |-> 0],
       [title |-> <<"Arts", SP, "Commission">>,
        date_text |-> UpcomingD1, agenda |-> 5, video |-> 0],
       [title |-> <<"Audit", "-", "Committee", SP, "Special">>,
        date_text |-> UpcomingD2, agenda |-> 9, video |-> 0]>>}

\* Tests freeze the clock; here it stands between the two meeting days.
FrozenNow == [day |-> 21, hour |-> 0, minute |-> 0]

ResponseOf(shapes) ==
    [ok |-> TRUE, container |-> "list",
     data |-> [i \in 1..Len(shapes) |-> ApiFragment(shapes[i], i)]]

\* A body that is no JSON (response.json() raises), a JSON object that wraps
\* one fragment ({"value": [...]}), or a list of fragments.
Responses ==
    {[ok |-> FALSE, container |-> "none", data |-> << >>]}
    \cup {[ResponseOf(shapes) EXCEPT !.container = "object"] : shapes \in [1..1 -> ApiShapes]}
    \cup {ResponseOf(shapes) : shapes \in UNION {[1..n -> ApiShapes] : n \in 0..MaxApi}}

(***************************************************************************)
(* The Tulsa harvest: start_requests, parse_upcoming, parse.               *)
(***************************************************************************)
TulsaIdle ==
    /\ pc = "off" /\ response = [ok |-> FALSE, container |-> "none", data |-> << >>]
    /\ listing = << >>
    /\ api_data = << >> /\ meetings_data = << >> /\ idx = 0
    /\ emitted = << >> /\ parsed = {} /\ now = FrozenNow

UnionIdle ==
    /\ upc = "off" /\ sources = << >> /\ pos = 0 /\ seen_dates = {}
    /\ fetches = << >> /\ uemitted = << >>

BoccIdle ==
    /\ pages = << >> /\ queue = {} /\ seen_urls = {}
    /\ bemitted = << >> /\ log = << >>

BoedIdle == ed_pc = "off" /\ ed_data = << >> /\ ed_idx = 0 /\ ed_emitted = << >>

CouncilIdle == cc_pc = "off" /\ cc_rows = << >> /\ cc_idx = 0 /\ cc_emitted = << >>

NotCalled == [called |-> FALSE]

\* the call has returned r, or raised
Result(r) == [called |-> TRUE, raised |-> r.raised, value |-> r.value]

CallIdle == arguments = [fn |-> "none"] /\ returned = NotCalled

\* after start_requests: the API request is out
InitTulsa ==
    /\ pc = "start"
    /\ response \in Responses
    /\ listing \in Listings
    /\ api_data = << >> /\ meetings_data = << >> /\ idx = 0
    /\ emitted = << >> /\ parsed = {}
    /\ now = FrozenNow
    /\ UnionIdle /\ BoccIdle /\ BoedIdle /\ CouncilIdle /\ CallIdle

\* parse_upcoming(response): the API response has arrived
ParseUpcoming ==
    /\ pc = "start"
    /\ api_data' = FilterMeetingsData(response)
    /\ pc' = "upcoming"
    /\ UNCHANGED <<response, listing, meetings_data, idx, emitted, parsed, now>>
    /\ UNCHANGED <<unionVars, boccVars, boedVars, councilVars, callVars>>

\* meetings_data = upcoming_meetings + api_url_meetings, the swap of the two
MeetingsDataSwapped(upcoming_meetings, api_url_meetings) ==
    api_url_meetings \o upcoming_meetings

\* meetings_data = upcoming_meetings + api_url_meetings (line 156)
MeetingsData(upcoming_meetings, api_url_meetings) ==
    upcoming_meetings \o api_url_meetings

\* parse(response), up to its loop: lines 153-156
ParseBegin ==
    /\ pc = "upcoming"
    /\ meetings_data' = MeetingsData(GetUpcomingMeetings(listing), api_data)
    /\ idx' = 1
    /\ pc' = IF meetings_data' = << >> THEN "done" ELSE "parse"
    /\ UNCHANGED <<response, listing, api_data, emitted, parsed, now>>
    /\ UNCHANGED <<unionVars, boccVars, boedVars, councilVars, callVars>>

\* `"Annual" not in meeting_data.get("Meeting_Type", "")`: a TypeError on None
AnnualCheckRaises(item) == Get(item, "Meeting_Type", Empty) = None

\* line 159 looking for the lower-case word
IsAnnualLowerCase(item) == Contains(Get(item, "Meeting_Type", Empty), "annual")

\* line 159: "Annual" in meeting_data.get("Meeting_Type", "")
IsAnnual(item) == Contains(Get(item, "Meeting_Type", Empty), "Annual")

\* one iteration of the loop of parse, lines 158-163; an exception ends the
\* generator
ParseStep ==
    /\ pc = "parse"
    /\ LET item == meetings_data[idx]
           m == ParseMeeting(item, now)
           last == idx = Len(meetings_data)
       IN  IF AnnualCheckRaises(item)
           THEN pc' = "raised" /\ UNCHANGED <<idx, emitted, parsed>>
           ELSE IF IsAnnual(item)
           THEN /\ idx' = idx + 1
                /\ pc' = IF last THEN "done" ELSE "parse"
                /\ UNCHANGED <<emitted, parsed>>
           ELSE IF m.raised
           THEN pc' = "raised" /\ parsed' = parsed \cup {idx} /\ UNCHANGED <<idx, emitted>>
           ELSE /\ emitted' = Append(emitted, [src |-> idx, meeting |-> m.value])
                /\ parsed' = parsed \cup {idx}
                /\ idx' = idx + 1
                /\ pc' = IF last THEN "done" ELSE "parse"
    /\ UNCHANGED <<response, listing, api_data, meetings_data, now>>
    /\ UNCHANGED <<unionVars, boccVars, boedVars, councilVars, callVars>>

NextTulsa == ParseUpcoming \/ ParseBegin \/ ParseStep

SpecTulsa == InitTulsa /\ [][NextTulsa]_vars


(***************************************************************************)
(* One call of _get_status, as _parse_meeting makes it at line 284: the    *)
(* meeting built from a fragment, and the fragment's Meeting_Type as text. *)
(***************************************************************************)
MeetingTypes ==
    {Absent, Empty,
     <<"Regular">>, <<"Special">>, <<"REGULAR">>, <<"Emergency">>,
     <<"Canceled", SP, "-", SP, "Reschedule", SP, "to", SP, "TBD">>,
     <<"Cancelled">>, <<"CANCELLED">>, <<"Postponed">>, <<"Rescheduled">>,
     <<"Special", SP, "-", SP, "Cancelled">>,
     <<"Regular", SP, "-", SP, "Postponed">>,
     <<"Reschedule", SP, "Special">>,
     <<"Tentative">>, <<"TENTATIVE">>,
     <<"Tentative", SP, "Special">>, <<"Regular", SP, "-", SP, "Tentative">>,
     <<"Tentative", SP, "-", SP, "Cancelled">>}

\* starts before, at and after the clock of the run, and no start
Starts ==
    {NoDT,
     [day |-> 20, hour |-> 11, minute |-> 30],
     [day |-> 20, hour |-> 23, minute |-> 59],
     FrozenNow,
     [day |-> 21, hour |-> 0, minute |-> 1],
     [day |-> 21, hour |-> 17, minute |-> 0]}

StatusCalls ==
    {[fn |-> "_get_status",
      item |-> [Board_Name |-> b, Meeting_Type |-> mt],
      start |-> st] :
        b \in {<<"Audit", SP, "Committee">>, Absent}, mt \in MeetingTypes, st \in Starts}

InitGetStatus ==
    /\ arguments \in StatusCalls
    /\ returned = NotCalled
    /\ TulsaIdle /\ UnionIdle /\ BoccIdle /\ BoedIdle /\ CouncilIdle

\* meeting["status"] = self._get_status(meeting, text=item.get("Meeting_Type", ""))
CallGetStatus ==
    /\ arguments.fn = "_get_status"
    /\ ~returned.called
    /\ returned' = Result(GetStatus(ParseTitle(arguments.item), arguments.start,
                                    Get(arguments.item, "Meeting_Type", Empty), now))
    /\ UNCHANGED arguments
    /\ UNCHANGED <<tulsaVars, unionVars, boccVars, boedVars, councilVars>>

SpecGetStatus == InitGetStatus /\ [][CallGetStatus]_vars

(***************************************************************************)
(* One call of _is_agency_match, as _get_upcoming_meetings makes it for a  *)
(* row with a title (line 175).                                            *)
(***************************************************************************)
\* name and agency of spiders the mixin is configured for
Agencies ==
    {[name |-> SpiderName, agency |-> SpiderAgency],
     [name |-> "tulok_community_dev",
      agency |-> <<"Tulsa", SP, "Community", SP, "Development", SP, "Committee">>],
     [name |-> "tulok_port_authority",
      agency |-> <<"City", SP, "of", SP, "Tulsa", "-", "Rogers", SP, "County", SP,
                   "Port", SP, "Authority">>],
     [name |-> "tulok_urban_planning",
      agency |-> <<"Urban", SP, "Development", SP, "Planning", SP, "Commission">>],
     [name |-> "tulok_stadium_trust", agency |-> <<"Tulsa", SP, "Stadium", SP, "Trust">>],
     [name |-> "tulok_authority", agency |-> <<"Tulsa", SP, "Authority">>],
     [name |-> "tulok_city_council", agency |-> <<"Tulsa", SP, "City", SP, "Council">>]}

\* Name cells of rows of the upcoming table
RowTitles ==
    {<<"Audit", SP, "Committee", SP, "Meeting">>,
     <<"Audit", "-", "Committee", SP, "Special">>,
     <<"AUDIT">>,
     <<"Arts", SP, "Commission">>,
     <<"Development", SP, "Update">>,
     <<"Community", SP, "Development", SP, "Committee">>,
     <<"Community", "-", "Development">>,
     <<"Urban", SP, "Development", SP, "Planning">>,
     <<"Urban", SP, "Planning", SP, "Update">>,
     <<"Port", SP, "Authority">>,
     <<"Rogers", SP, "County", SP, "Port", SP, "Authority">>,
     <<"Tulsa", "-", "Rogers", SP, "County">>,
     <<"Tulsa", SP, "Stadium", SP, "Trust">>,
     <<"Tulsa", SP, "Authority", SP, "Meeting">>,
     <<"Regular", SP, "Council", SP, "Meeting">>,
     <<"Council", SP, "Meeting", SP, "Special">>}

InitIsAgencyMatch ==
    /\ arguments \in {[fn |-> "_is_agency_match", name |-> a.name, agency |-> a.agency,
                       title |-> t] : a \in Agencies, t \in RowTitles}
    /\ returned = NotCalled
    /\ TulsaIdle /\ UnionIdle /\ BoccIdle /\ BoedIdle /\ CouncilIdle

\* self._is_agency_match(title)
CallIsAgencyMatch ==
    /\ arguments.fn = "_is_agency_match"
    /\ ~returned.called
    /\ returned' = Result([raised |-> FALSE,
                           value |-> IsAgencyMatch(arguments.name, arguments.agency,
                                                   arguments.title)])
    /\ UNCHANGED arguments
    /\ UNCHANGED <<tulsaVars, unionVars, boccVars, boedVars, councilVars>>

SpecIsAgencyMatch == InitIsAgencyMatch /\ [][CallIsAgencyMatch]_vars

(***************************************************************************)
(* _parse_classification, and one call of it as _parse_meeting makes it    *)
(* at line 274 with the title of the meeting.                              *)
(***************************************************************************)
MaxParts == 3       \* dash-separated parts of a title

NOT_CLASSIFIED == "Not classified"

\* CLASSIFICATIONS of city_scrapers_core.constants, in its order, each with
\* the words of classification.lower()
CLASSIFICATIONS ==
    <<[name |-> "Advisory Committee", words |-> <<"advisory", "committee">>],
      [name |-> "Board",              words |-> <<"board">>],
      [name |-> "City Council",       words |-> <<"city", "council">>],
      [name |-> "Commission",         words |-> <<"commission">>],
      [name |-> "Committee",          words |-> <<"committee">>],
      [name |-> "Forum",              words |-> <<"forum">>],
      [name |-> "Police Beat",        words |-> <<"police", "beat">>],
      [name |-> NOT_CLASSIFIED,       words |-> <<"not", "classified">>]>>

\* title.split("-")
RECURSIVE SplitDash(_)
SplitDash(text) ==
    LET dashes == {i \in 1..Len(text) : text[i] = "-"}
        i == CHOOSE d \in dashes : \A e \in dashes : d <= e
    IN  IF dashes = {} THEN <<text>>
        ELSE <<SubSeq(text, 1, i - 1)>> \o SplitDash(SubSeq(text, i + 1, Len(text)))

\* `classification.lower() in part` for a stripped part: the words of the
\* classification stand in it one blank apart
PartHas(part, words) ==
    \E i \in 1..Len(part) :
      /\ i + 2 * (Len(words) - 1) <= Len(part)
      /\ \A j \in 1..Len(words) : HasSub(part[i + 2 * (j - 1)], words[j])
      /\ \A j \in 1..(Len(words) - 1) : part[i + 2 * j - 1] = SP

\* the inner loop of lines 327-329 from classification k on: the first
\* classification found in the part, "" when there is none
RECURSIVE ClassifyPart(_, _)
ClassifyPart(part, k) ==
    IF k > Len(CLASSIFICATIONS) THEN ""
    ELSE IF PartHas(part, CLASSIFICATIONS[k].words) THEN CLASSIFICATIONS[k].name
    ELSE ClassifyPart(part, k + 1)

\* the outer loop of line 326 over the given parts, in their order
RECURSIVE ClassifyParts(_)
ClassifyParts(parts) ==
    IF parts = << >> THEN NOT_CLASSIFIED
    ELSE IF ClassifyPart(Strip(Head(parts)), 1) # ""
         THEN ClassifyPart(Strip(Head(parts)), 1)
         ELSE ClassifyParts(Tail(parts))

\* _parse_classification looking at the first part before the second
ParseClassificationFirstPartFirst(title) ==
    LET sub_agencies == SplitDash(title)
    IN  IF ~Truthy(title) THEN NOT_CLASSIFIED
        ELSE ClassifyParts(SubSeq(sub_agencies, 1, 1)
                           \o SubSeq(sub_agencies, 2, Min(2, Len(sub_agencies))))

\* _parse_classification looking at every part, from the second on and
\* then the first
ParseClassificationEveryPart(title) ==
    LET sub_agencies == SplitDash(title)
    IN  IF ~Truthy(title) THEN NOT_CLASSIFIED
        ELSE ClassifyParts(SubSeq(sub_agencies, 2, Len(sub_agencies))
                           \o SubSeq(sub_agencies, 1, 1))

\* _parse_classification: sub_agencies[1:2] + sub_agencies[0:1]
ParseClassification(title) ==
    LET sub_agencies == SplitDash(title)
    IN  IF ~Truthy(title) THEN NOT_CLASSIFIED
        ELSE ClassifyParts(SubSeq(sub_agencies, 2, Min(2, Len(sub_agencies)))
                           \o SubSeq(sub_agencies, 1, 1))

\* board names and meeting types a title is made of
TitleParts ==
    {<<"Urban", SP, "Development">>, <<"Budget">>, <<"Committee">>,
     <<"Tulsa", SP, "Board">>, <<"Arts", SP, "Commission">>,
     <<"Advisory", SP, "Committee">>, <<"City", SP, "Council">>, <<"Subcommittee">>}

\* f"{board_name} - {meeting_type}" for the parts of ps
RECURSIVE JoinDash(_)
JoinDash(ps) ==
    IF Len(ps) = 1 THEN ps[1]
    ELSE ps[1] \o <<SP, "-", SP>> \o JoinDash(Tail(ps))

Titles ==
    {Empty, None}
    \cup {JoinDash(ps) : ps \in UNION {[1..n -> TitleParts] : n \in 1..MaxParts}}

InitParseClassification ==
    /\ arguments \in {[fn |-> "_parse_classification", title |-> t] : t \in Titles}
    /\ returned = NotCalled
    /\ TulsaIdle /\ UnionIdle /\ BoccIdle /\ BoedIdle /\ CouncilIdle

\* classification=self._parse_classification(title)
CallParseClassification ==
    /\ arguments.fn = "_parse_classification"
    /\ ~returned.called
    /\ returned' = Result([raised |-> FALSE, value |-> ParseClassification(arguments.title)])
    /\ UNCHANGED arguments
    /\ UNCHANGED <<tulsaVars, unionVars, boccVars, boedVars, councilVars>>

SpecParseClassification == InitParseClassification /\ [][CallParseClassification]_vars

(***************************************************************************)
(* _parse_links, and one call of it as _parse_meeting makes it at line 280 *)
(* with the record of the meeting.  A field that is missing, null, empty   *)
(* or zero is falsy and written 0.                                         *)
(***************************************************************************)
\* records with every combination of a document identifier, an agenda
\* anchor and a video anchor, each one of three or none
LinkItems ==
    {[ApiFragment([date |-> D1, time |-> T1, type |-> <<"Regular">>], 1)
        EXCEPT !.Agenda_ID = a, !.Agenda_Link = l, !.Video_Link = v] :
       a \in {0, 31464, 31465, 31466}, l \in {0, 5, 7, 9}, v \in {0, 4, 6, 8}}

InitParseLinks ==
    /\ arguments \in {[fn |-> "_parse_links", item |-> it] : it \in LinkItems}
    /\ returned = NotCalled
    /\ TulsaIdle /\ UnionIdle /\ BoccIdle /\ BoedIdle /\ CouncilIdle

\* self._parse_links(item)
CallParseLinks ==
    /\ arguments.fn = "_parse_links"
    /\ ~returned.called
    /\ returned' = Result([raised |-> FALSE, value |-> ParseLinks(arguments.item)])
    /\ UNCHANGED arguments
    /\ UNCHANGED <<tulsaVars, unionVars, boccVars, boedVars, councilVars>>

SpecParseLinks == InitParseLinks /\ [][CallParseLinks]_vars

(***************************************************************************)
(* _parse_start, and one call of it as _parse_meeting makes it at line 269 *)
(* with the record of the meeting.                                         *)
(***************************************************************************)
\* Meeting_Date as the API and its faults give it
StartDates ==
    {D1, D2, <<SP>> \o D1 \o <<SP>>, <<"13/45/2025">>, <<"2025-11-20">>, Empty, None, Absent}

\* Meeting_Time: "11:30AM", "5:00PM", the same with one blank before the
\* meridiem, padded, and texts that are no twelve-hour time
StartTimes ==
    {T1, T2, <<"11:30", SP, "AM">>, <<"5:00", SP, "PM">>, <<SP>> \o T2 \o <<SP>>,
     <<"17:00">>, <<"TBD">>, Empty, None, Absent}

\* Meeting_Date_Time: set on the records of the upcoming listing only
StartDateTimes == {NoDT, [day |-> 21, hour |-> 17, minute |-> 0]}

StartItems ==
    {[ApiFragment([date |-> d, time |-> t, type |-> <<"Regular">>], 1)
        EXCEPT !.Meeting_Date_Time = dt] :
       d \in StartDates, t \in StartTimes, dt \in StartDateTimes}

InitParseStart ==
    /\ arguments \in {[fn |-> "_parse_start", item |-> it] : it \in StartItems}
    /\ returned = NotCalled
    /\ TulsaIdle /\ UnionIdle /\ BoccIdle /\ BoedIdle /\ CouncilIdle

\* self._parse_start(item)
CallParseStart ==
    /\ arguments.fn = "_parse_start"
    /\ ~returned.called
    /\ returned' = Result(ParseStart(arguments.item))
    /\ UNCHANGED arguments
    /\ UNCHANGED <<tulsaVars, unionVars, boccVars, boedVars, councilVars>>

SpecParseStart == InitParseStart /\ [][CallParseStart]_vars

(***************************************************************************)
(* Properties of the Tulsa harvest.                                        *)
(***************************************************************************)
\* the fragments of the response when it is a list
ApiIn == IF response.container = "list" THEN response.data ELSE << >>
NUp == Len(GetUpcomingMeetings(listing))
Filtered == pc # "start"
Ended == pc \in {"done", "raised"}

\* a fragment that carries a date and a time as texts
HasTexts(f) == IsText(Get(f, "Meeting_Date", Empty)) /\ IsText(Get(f, "Meeting_Time", Empty))
DateOf(f) == Strip(Get(f, "Meeting_Date", Empty))
TimeOf(f) == Strip(Get(f, "Meeting_Time", Empty))

\* the same date and the same non-empty time
SameTimed(f, g) ==
    /\ HasTexts(f) /\ HasTexts(g)
    /\ TimeOf(f) # Empty
    /\ DateOf(f) = DateOf(g) /\ TimeOf(f) = TimeOf(g)

\* i..j is a maximal run of adjacent fragments with one date and one
\* non-empty time
IsRun(i, j) ==
    /\ 1 <= i /\ i <= j /\ j <= Len(ApiIn)
    /\ \A k \in i..j : SameTimed(ApiIn[i], ApiIn[k])
    /\ i > 1 => ~SameTimed(ApiIn[i], ApiIn[i - 1])
    /\ j < Len(ApiIn) => ~SameTimed(ApiIn[i], ApiIn[j + 1])

IdsOf(i, j) == {ApiIn[k].Agenda_ID : k \in i..j}

\* the Agenda_ID an emitted meeting's id-built Agenda links use
IdLinks(m) ==
    {m.links[k].href.ref : k \in {n \in 1..Len(m.links) :
                                     m.links[n].href.kind = "DocumentIdentifiers"}}

EmittedFor(ids) == {n \in 1..Len(emitted) : IdLinks(emitted[n].meeting) \cap ids # {}}

\* C1: every maximal run of adjacent API fragments with the same date and
\* the same non-empty time is kept as exactly one fragment, its last, and
\* the harvest emits exactly one meeting for it, whose id-built Agenda link
\* uses the last fragment's Agenda_ID.
C1_RunKeptOnceAndEmittedOnce ==
    response.ok =>
      \A i \in 1..Len(ApiIn) : \A j \in i..Len(ApiIn) :
        IsRun(i, j) =>
          /\ Filtered =>
               {k \in 1..Len(api_data) : api_data[k].Agenda_ID \in IdsOf(i, j)}
                 = {k \in 1..Len(api_data) : api_data[k] = ApiIn[j]}
          /\ Filtered =>
               Cardinality({k \in 1..Len(api_data) : api_data[k] = ApiIn[j]}) = 1
          /\ Ended =>
               /\ Cardinality(EmittedFor(IdsOf(i, j))) = 1
               /\ \A n \in EmittedFor(IdsOf(i, j)) :
                    IdLinks(emitted[n].meeting) = {ApiIn[j].Agenda_ID}


\* where the sequence parse iterates holds the fragment of a source
UpIdx == 1..NUp
ApiIdx == (NUp + 1)..Len(meetings_data)
Concatenated == pc \in {"parse", "done", "raised"}

EmittedSrc == {emitted[n].src : n \in 1..Len(emitted)}
StartsOf(srcs) == {emitted[n].meeting.start : n \in {k \in 1..Len(emitted) : emitted[k].src \in srcs}}

\* an upcoming fragment and an API fragment that denote the same meeting:
\* the same date and time
SameMeeting(u, a) ==
    /\ ~ParseStart(u).raised /\ ~ParseStart(a).raised
    /\ ParseStart(u).value # NoDT
    /\ ParseStart(u).value = ParseStart(a).value

WellFormed(f) ==
    /\ Get(f, "Meeting_Type", Empty) # None
    /\ \/ f.Meeting_Date_Time # NoDT
       \/ /\ HasTexts(f)
          /\ StrptimeDate(DateOf(f)) # -1

\* the API fragments deduplication leaves: not followed by a fragment of
\* the same date and time
LastOfItsKey(k) ==
    k = Len(ApiIn) \/ ~(HasTexts(ApiIn[k + 1]) /\ SameAsLast(<<ApiIn[k]>>, ApiIn[k + 1]))

\* C3: a malformed fragment affects only itself: no exception leaves
\* filter_meetings_data or parse, and every well-formed fragment of the
\* batch is still emitted.
C3_MalformedFragmentDroppedAlone ==
    /\ pc # "raised"
    /\ Ended =>
         /\ \A k \in 1..Len(ApiIn) :
              (response.ok /\ WellFormed(ApiIn[k]) /\ LastOfItsKey(k) /\ ~IsAnnual(ApiIn[k]))
                => EmittedFor({ApiIn[k].Agenda_ID}) # {}
         /\ \A u \in UpIdx : WellFormed(meetings_data[u]) => u \in EmittedSrc

\* C8: the deduplicator is idempotent: applied to its own output it returns
\* that output unchanged.
C8_DedupIdempotent ==
    Filtered =>
      FilterMeetingsData([ok |-> TRUE, container |-> "list", data |-> api_data]) = api_data

C8_Witness ==
    /\ Filtered
    /\ api_data # << >>
    /\ Len(api_data) < Len(ApiIn)
    /\ \E k \in 1..Len(api_data) : TimeOf(api_data[k]) = Empty

NoneRaises(data) == \A k \in 1..Len(data) : ~StripRaises(data[k])

\* the fragments of data from i on that are not followed by a fragment whose
\* key matches theirs
RECURSIVE RunLasts(_, _)
RunLasts(data, i) ==
    IF i > Len(data) THEN << >>
    ELSE IF i < Len(data) /\ SameAsLast(<<data[i]>>, data[i + 1])
         THEN RunLasts(data, i + 1)
         ELSE <<data[i]>> \o RunLasts(data, i + 1)

\* C9: only adjacent duplicates collapse: [A, B, A'] with key(A) = key(A')
\* and a different key(B) is kept whole and in order; in general a fragment
\* is compared with the fragment right before it and no other.
C9_AdjacentOnly ==
    (Filtered /\ response.ok /\ NoneRaises(ApiIn)) =>
      /\ api_data = RunLasts(ApiIn, 1)
      /\ (/\ Len(ApiIn) = 3
          /\ DateTimeStr(ApiIn[1]) = DateTimeStr(ApiIn[3])
          /\ DateTimeStr(ApiIn[1]) # DateTimeStr(ApiIn[2]))
           => api_data = ApiIn

C9_Witness ==
    /\ Filtered /\ response.ok /\ NoneRaises(ApiIn)
    /\ Len(ApiIn) = 3
    /\ DateTimeStr(ApiIn[1]) = DateTimeStr(ApiIn[3])
    /\ DateTimeStr(ApiIn[1]) # DateTimeStr(ApiIn[2])
    /\ TimeOf(ApiIn[1]) # Empty
    /\ api_data = ApiIn

\* a fragment with a date and without a time (absent or empty)
Untimed(f) ==
    /\ IsText(Get(f, "Meeting_Date", Empty)) /\ DateOf(f) # Empty
    /\ Get(f, "Meeting_Time", Empty) # None
    /\ TimeOf(f) = Empty

\* C10: two adjacent fragments with the same date and both without a time
\* have matching keys: the later replaces the earlier, one survives.
C10_UntimedDuplicatesCollapse ==
    (Filtered /\ response.ok /\ NoneRaises(ApiIn)) =>
      \A k \in 1..(Len(ApiIn) - 1) :
        (Untimed(ApiIn[k]) /\ Untimed(ApiIn[k + 1]) /\ DateOf(ApiIn[k]) = DateOf(ApiIn[k + 1]))
          => \A n \in 1..Len(api_data) : api_data[n] # ApiIn[k]

\* a fragment whose Meeting_Type holds the word Annual
MarkedAnnual(f) ==
    /\ IsText(f.Meeting_Type)
    /\ \E i \in 1..Len(f.Meeting_Type) : f.Meeting_Type[i] = "Annual"

\* C11: no fragment whose Meeting_Type marks it as Annual is handed to
\* _parse_meeting, and no emitted meeting derives from one.
C11_AnnualNeverParsed ==
    /\ \A i \in parsed : ~MarkedAnnual(meetings_data[i])
    /\ \A n \in 1..Len(emitted) : ~MarkedAnnual(meetings_data[emitted[n].src])

C11_Witness ==
    /\ pc = "done"
    /\ \E i \in 1..Len(meetings_data) : \E j \in 1..Len(meetings_data) :
         /\ MarkedAnnual(meetings_data[i]) /\ i \notin parsed
         /\ i < j /\ j \in parsed /\ j \in EmittedSrc

\* the response is no JSON, or its top level is not a list
StructurallyInvalid == ~response.ok \/ response.container # "list"

\* C14 as stated: a structurally invalid API response is fatal: the harvest
\* does not run to its end as if the API had returned an empty list.
C14_InvalidResponseIsFatal ==
    StructurallyInvalid => pc # "done"

\* C14, amended: a structurally invalid API response is taken as an empty
\* list: filter_meetings_data returns [] and the harvest goes on with the
\* upcoming listing alone.
C14_InvalidResponseTakenAsEmpty ==
    StructurallyInvalid =>
      /\ Filtered => api_data = << >>
      /\ Concatenated => meetings_data = GetUpcomingMeetings(listing)
      /\ pc = "done" => EmittedSrc = 1..NUp

C14_Witness ==
    /\ response.ok /\ response.container = "object" /\ response.data # << >>
    /\ pc = "done"
    /\ emitted # << >>

(***************************************************************************)
(* Union PS: parse_board_page and the Board Report fetches.                *)
(*                                                                         *)
(* A source entry is [text, anchor, minutes, report]: the entry's text, *)
(* whether it is a past agenda anchor, and whether a Minutes and a Board   *)
(* Report link follow that anchor.                                         *)
(***************************************************************************)
Months == {"January", "February", "March", "April", "May", "June", "July",
           "August", "September", "October", "November", "December"}

\* The lexemes the day group [0-9lI]{1,2} can take.  The pattern is compiled
\* with re.IGNORECASE, so the class also takes "L" and "i".
DayTokens ==
    {"1", "9", "l", "I", "00", "01", "0l", "10", "l0", "11", "ll", "lI", "19", "l9",
     "I9", "i9", "L9", "20", "21", "2I", "31", "3l"}

\* the characters of each of them
CharsOfDayToken ==
    [tok \in DayTokens |->
       CASE tok = "1"  -> <<"1">>       [] tok = "9"  -> <<"9">>
         [] tok = "l"  -> <<"l">>       [] tok = "I"  -> <<"I">>
         [] tok = "00" -> <<"0", "0">>  [] tok = "01" -> <<"0", "1">>
         [] tok = "0l" -> <<"0", "l">>  [] tok = "10" -> <<"1", "0">>
         [] tok = "l0" -> <<"l", "0">>  [] tok = "11" -> <<"1", "1">>
         [] tok = "ll" -> <<"l", "l">>  [] tok = "lI" -> <<"l", "I">>
         [] tok = "19" -> <<"1", "9">>  [] tok = "l9" -> <<"l", "9">>
         [] tok = "I9" -> <<"I", "9">>  [] tok = "i9" -> <<"i", "9">>
         [] tok = "L9" -> <<"L", "9">>  [] tok = "20" -> <<"2", "0">>
         [] tok = "21" -> <<"2", "1">>  [] tok = "2I" -> <<"2", "I">>
         [] tok = "31" -> <<"3", "1">>  [] tok = "3l" -> <<"3", "l">>]

\* the characters of the day group; << >> for a lexeme it does not take
DayChars(tok) == IF tok \in DayTokens THEN CharsOfDayToken[tok] ELSE << >>

DayTokenAccepted(tok) == tok \in DayTokens

\* int() of one character: its value, -1 for a character that is no digit
DigitOf(c) ==
    CASE c = "0" -> 0  [] c = "1" -> 1  [] c = "2" -> 2  [] c = "3" -> 3
      [] c = "9" -> 9  [] OTHER -> -1

\* int(chars): -1 for ValueError
IntOf(chars) ==
    IF \E k \in 1..Len(chars) : DigitOf(chars[k]) = -1 THEN -1
    ELSE IF Len(chars) = 1 THEN DigitOf(chars[1])
    ELSE 10 * DigitOf(chars[1]) + DigitOf(chars[2])

\* int() of the characters cs once each character of typos is replaced by "1"
IntAfterReplace(cs, typos) ==
    IntOf([k \in 1..Len(cs) |-> IF cs[k] \in typos THEN "1" ELSE cs[k]])

\* int(m.group(2).replace("l", "1")) of every day token
DayReplacingL == [tok \in DayTokens |-> IntAfterReplace(CharsOfDayToken[tok], {"l"})]

\* int(m.group(2).replace("l", "1").replace("I", "1")) of every day token
DayReplacingLAndI ==
    [tok \in DayTokens |-> IntAfterReplace(CharsOfDayToken[tok], {"l", "I"})]

\* the day token with "l" alone taken for "1", "I" left as it is
DayOfTokenLowerOnly(tok) == DayReplacingL[tok]

\* int(m.group(2).replace("l", "1").replace("I", "1")) of a day token the
\* pattern accepts; -1 for the ValueError of int()
DayOfToken(tok) == DayReplacingLAndI[tok]

\* date_re.search(text): the position of the month of the first match, 0 if
\* the text holds none
DateMatch(text) ==
    LET hits == {i \in 1..Len(text) :
                   /\ text[i] \in Months
                   /\ i + 4 <= Len(text)
                   /\ text[i + 1] = SP
                   /\ DayTokenAccepted(text[i + 2])
                   /\ \/ text[i + 3] = SP /\ text[i + 4] = "2025"
                      \/ /\ i + 5 <= Len(text)
                         /\ text[i + 3] = "," /\ text[i + 4] = SP /\ text[i + 5] = "2025"}
    IN  IF hits = {} THEN 0 ELSE CHOOSE i \in hits : \A j \in hits : i <= j

\* days of the months of 2025 the model's texts name
DaysIn(month) == IF month = "November" THEN 30 ELSE 31

\* _parse_start_from_text: None without a match, a ValueError of int() for a
\* token that is no number after the two replacements or of strptime for a
\* day the month does not have, else that day at 19:00
ParseStartFromText(text) ==
    LET i == DateMatch(text)
        day == DayOfToken(text[i + 2])
    IN  IF i = 0 THEN [raised |-> FALSE, value |-> NoDT]
        ELSE IF day < 1 \/ day > DaysIn(text[i]) THEN [raised |-> TRUE, value |-> NoDT]
        ELSE [raised |-> FALSE, value |-> [day |-> day, hour |-> 19, minute |-> 0]]

\* _collect_links(main_page, anchor) of entry i
CollectLinks(i, entry) ==
    <<[title |-> "Agenda", href |-> [kind |-> "agenda", ref |-> i]]>>
    \o (IF entry.minutes
        THEN <<[title |-> "Minutes", href |-> [kind |-> "minutes", ref |-> i]]>> ELSE << >>)
    \o (IF entry.report
        THEN <<[title |-> "Board Report", href |-> [kind |-> "report", ref |-> i]]>> ELSE << >>)

\* links of lines 69-73
LinksOf(i, entry) == IF entry.anchor THEN CollectLinks(i, entry) ELSE << >>

\* board_report_link of lines 76-78 is not None
HasBoardReport(links) == \E k \in 1..Len(links) : links[k].title = "Board Report"

\* _create_meeting
CreateMeeting(i, start_dt, links) == [entry |-> i, start |-> start_dt, links |-> links]

NoFetch == [state |-> "none", start |-> NoDT, links |-> << >>,
            outcome |-> [kind |-> "none", status |-> 0, youtube |-> FALSE]]


(***************************************************************************)
(* Inputs of the Union PS harvest.                                         *)
(***************************************************************************)
DateText(tok) == <<"November", SP, tok, ",", SP, "2025">>

\* past agenda anchors of #fsEl_23352
PastEntries ==
    {[text |-> DateText("19"), anchor |-> TRUE, minutes |-> TRUE,  report |-> TRUE],
     [text |-> DateText("20"), anchor |-> TRUE, minutes |-> FALSE, report |-> TRUE],
     [text |-> DateText("l9"), anchor |-> TRUE, minutes |-> TRUE,  report |-> FALSE],
     [text |-> DateText("31"), anchor |-> TRUE, minutes |-> FALSE, report |-> TRUE],
     [text |-> <<"Agenda">>,   anchor |-> TRUE, minutes |-> FALSE, report |-> TRUE]}

\* lines of text of the upcoming column of #fsEl_23350
UpcomingEntries ==
    {[text |-> DateText("20"), anchor |-> FALSE, minutes |-> FALSE, report |-> FALSE],
     [text |-> DateText("I9"), anchor |-> FALSE, minutes |-> FALSE, report |-> FALSE],
     [text |-> <<"TBD">>,      anchor |-> FALSE, minutes |-> FALSE, report |-> FALSE]}

SeqsOf(S, n) == UNION {[1..m -> S] : m \in 0..n}

\* _collect_sources: the past entries, then the upcoming ones
SourceLists ==
    {p \o u : p \in SeqsOf(PastEntries, MaxSources), u \in SeqsOf(UpcomingEntries, MaxSources)}

\* what the downloader makes of a Board Report request
Outcomes ==
    {[kind |-> "response", status |-> 200, youtube |-> TRUE],
     [kind |-> "response", status |-> 200, youtube |-> FALSE],
     [kind |-> "response", status |-> 404, youtube |-> TRUE],
     [kind |-> "failure",  status |-> 0,   youtube |-> FALSE]}

(***************************************************************************)
(* The Union PS harvest.                                                   *)
(***************************************************************************)
\* parse_board_page has been called and stands before its loop
InitUnion ==
    /\ upc = "page"
    /\ sources \in {sl \in SourceLists : Len(sl) <= MaxSources}
    /\ pos = 1
    /\ seen_dates = {}
    /\ fetches = [i \in 1..Len(sources) |-> NoFetch]
    /\ uemitted = << >>
    /\ TulsaIdle /\ BoccIdle /\ BoedIdle /\ CouncilIdle /\ CallIdle

\* line 60 without the test of seen_dates
InSeenDatesNever(start_dt, seen) == FALSE

\* line 60: start_dt.date() in seen_dates
InSeenDates(start_dt, seen) == start_dt.day \in seen

\* one iteration of the loop of parse_board_page (lines 58-100); the
\* generator ends after the last entry, or with an exception
BoardPageStep ==
    /\ upc = "page"
    /\ pos <= Len(sources)
    /\ LET entry == sources[pos]
           r == ParseStartFromText(entry.text)
           start_dt == r.value
           links == LinksOf(pos, entry)
           more == IF pos = Len(sources) THEN "exhausted" ELSE "page"
       IN  IF r.raised
           THEN upc' = "raised" /\ UNCHANGED <<pos, seen_dates, fetches, uemitted>>
           ELSE IF start_dt = NoDT \/ InSeenDates(start_dt, seen_dates)
           THEN /\ pos' = pos + 1 /\ upc' = more
                /\ UNCHANGED <<seen_dates, fetches, uemitted>>
           ELSE /\ seen_dates' = seen_dates \cup {start_dt.day}
                /\ pos' = pos + 1 /\ upc' = more
                /\ IF HasBoardReport(links)
                   THEN /\ fetches' = [fetches EXCEPT ![pos] =
                                         [NoFetch EXCEPT !.state = "pending",
                                                         !.start = start_dt,
                                                         !.links = links]]
                        /\ UNCHANGED uemitted
                   ELSE /\ uemitted' = Append(uemitted, CreateMeeting(pos, start_dt, links))
                        /\ UNCHANGED fetches
    /\ UNCHANGED sources
    /\ UNCHANGED <<tulsaVars, boccVars, boedVars, councilVars, callVars>>

\* the page holds no entry at all: the loop body never runs
BoardPageEmpty ==
    /\ upc = "page" /\ pos > Len(sources)
    /\ upc' = "exhausted"
    /\ UNCHANGED <<sources, pos, seen_dates, fetches, uemitted>>
    /\ UNCHANGED <<tulsaVars, boccVars, boedVars, councilVars, callVars>>

\* the downloader resolves the Board Report request of entry i
ResolveFetch(i) ==
    /\ fetches[i].state = "pending"
    /\ \E o \in Outcomes :
         fetches' = [fetches EXCEPT ![i].state = "resolved", ![i].outcome = o]
    /\ UNCHANGED <<upc, sources, pos, seen_dates, uemitted>>
    /\ UNCHANGED <<tulsaVars, boccVars, boedVars, councilVars, callVars>>

\* lines 127-130 without the test of response.status
ReportLinksAnyStatus(f) ==
    IF f.outcome.youtube
    THEN Append(f.links, [title |-> "Video", href |-> [kind |-> "youtube", ref |-> 0]])
    ELSE f.links

\* data["links"] after lines 127-130
ReportLinks(f) ==
    IF f.outcome.status # 404 /\ f.outcome.youtube
    THEN Append(f.links, [title |-> "Video", href |-> [kind |-> "youtube", ref |-> 0]])
    ELSE f.links

\* parse_board_report(response), the callback of entry i's request
ParseBoardReport(i) ==
    /\ i \in DOMAIN fetches
    /\ fetches[i].state = "resolved"
    /\ fetches[i].outcome.kind = "response"
    /\ fetches' = [fetches EXCEPT ![i].state = "done", ![i].links = ReportLinks(fetches[i])]
    /\ uemitted' = Append(uemitted,
                          CreateMeeting(i, fetches[i].start, ReportLinks(fetches[i])))
    /\ UNCHANGED <<upc, sources, pos, seen_dates>>
    /\ UNCHANGED <<tulsaVars, boccVars, boedVars, councilVars, callVars>>

\* an errback that logs the failure and yields nothing
HandleBoardReportErrorSilent(i) ==
    /\ i \in DOMAIN fetches
    /\ fetches[i].state = "resolved"
    /\ fetches[i].outcome.kind = "failure"
    /\ fetches' = [fetches EXCEPT ![i].state = "done"]
    /\ UNCHANGED <<upc, sources, pos, seen_dates, uemitted>>
    /\ UNCHANGED <<tulsaVars, boccVars, boedVars, councilVars, callVars>>

\* handle_board_report_error(failure), the errback of entry i's request
HandleBoardReportError(i) ==
    /\ i \in DOMAIN fetches
    /\ fetches[i].state = "resolved"
    /\ fetches[i].outcome.kind = "failure"
    /\ fetches' = [fetches EXCEPT ![i].state = "done"]
    /\ uemitted' = Append(uemitted, CreateMeeting(i, fetches[i].start, fetches[i].links))
    /\ UNCHANGED <<upc, sources, pos, seen_dates>>
    /\ UNCHANGED <<tulsaVars, boccVars, boedVars, councilVars, callVars>>

Resolve == \E i \in 1..Len(sources) : ResolveFetch(i)
Callback == \E i \in 1..Len(sources) : ParseBoardReport(i)
Errback == \E i \in 1..Len(sources) : HandleBoardReportError(i)

NextUnion == BoardPageStep \/ BoardPageEmpty \/ Resolve \/ Callback \/ Errback

SpecUnion == InitUnion /\ [][NextUnion]_vars

\* the engine keeps consuming the generator and calls the callback or the
\* errback of every request the downloader has resolved
SpecUnionFair ==
    /\ SpecUnion
    /\ WF_vars(BoardPageStep)
    /\ \A i \in 1..MaxSources : WF_vars(ParseBoardReport(i)) /\ WF_vars(HandleBoardReportError(i))

(***************************************************************************)
(* _parse_start_from_text, and one call of it as parse_board_page makes it *)
(* at line 59 with the text of a source entry.                             *)
(***************************************************************************)
\* texts of source entries: a date with or without its comma, alone or
\* after the name of the document, and texts without a date
EntryTexts ==
    UNION {{<<m, SP, tok, ",", SP, "2025">>,
            <<m, SP, tok, SP, "2025">>,
            <<"Agenda", SP, m, SP, tok, ",", SP, "2025">>} :
             m \in {"October", "November"}, tok \in DayTokens}
    \cup {<<"Agenda">>, <<"TBD">>, <<"November", SP, "2025">>}

InitParseStartFromText ==
    /\ arguments \in {[fn |-> "_parse_start_from_text", text |-> t] : t \in EntryTexts}
    /\ returned = NotCalled
    /\ TulsaIdle /\ UnionIdle /\ BoccIdle /\ BoedIdle /\ CouncilIdle

\* self._parse_start_from_text(entry["text"])
CallParseStartFromText ==
    /\ arguments.fn = "_parse_start_from_text"
    /\ ~returned.called
    /\ returned' = Result(ParseStartFromText(arguments.text))
    /\ UNCHANGED arguments
    /\ UNCHANGED <<tulsaVars, unionVars, boccVars, boedVars, councilVars>>

SpecParseStartFromText == InitParseStartFromText /\ [][CallParseStartFromText]_vars


(***************************************************************************)
(* BOCC: start_requests and parse with @odata.nextLink pagination.         *)
(*                                                                         *)
(* A url is <<query, k>>: page k of the "past" or the "upcoming" query.    *)
(* A page is [events, next]: data["value"] and data["@odata.nextLink"]     *)
(* (NoLink when the page carries none).  An event is "ok" or, without a    *)
(* startDateTime that _parse_dt can read, "nostart".                       *)
(***************************************************************************)
NoLink == << >>
Queries == {"past", "upcoming"}

\* urls of start_requests (lines 21-26)
StartUrls == {<<q, 1>> : q \in Queries}

PageOf(url) == pages[url[1]][url[2]]

\* _parse_start / _parse_dt: None for a missing or unreadable startDateTime
BoccParseStart(event) == IF event = "ok" THEN [day |-> 19, hour |-> 11, minute |-> 30] ELSE NoDT

\* lines 41-55 for one event: _get_status(meeting) compares item["start"]
\* with datetime.now(), a TypeError when start is None
BoccMeetingRaises(event) == BoccParseStart(event) = NoDT

\* _parse_time_notes: the empty text for every event; the spider reads no
\* info page and has no time_notes attribute
BoccParseTimeNotes(event) == Empty

\* the yields of parse(response) for the events from k on, then the request
\* for the next page; an exception ends the generator
RECURSIVE ParseYields(_, _, _)
ParseYields(url, page, k) ==
    IF k > Len(page.events)
    THEN IF page.next # NoLink THEN <<[kind |-> "request", url |-> page.next, k |-> 0]>>
         ELSE << >>
    ELSE IF BoccMeetingRaises(page.events[k])
         THEN <<[kind |-> "raise", url |-> url, k |-> k]>>
         ELSE <<[kind |-> "meeting", url |-> url, k |-> k,
                  time_notes |-> BoccParseTimeNotes(page.events[k])]>>
              \o ParseYields(url, page, k + 1)

OfKind(yields, kind) == SelectSeq(yields, LAMBDA y : y.kind = kind)

\* the request of line 62 made with dont_filter=True
EnqueueUnfiltered(q, seen, urls) == q \cup urls

\* scrapy.Request(url, callback=self.parse) without dont_filter: the
\* scheduler drops a request whose url it has seen
Enqueue(q, seen, urls) == q \cup (urls \ seen)

\* the pages of one query: k pages, the last one either carrying no
\* nextLink or pointing back to the first page
PageEvents == {<< >>, <<"ok", "ok">>, <<"ok", "nostart", "ok">>}

ChainsOf(q) ==
    {[k \in 1..Len(ev) |->
        [events |-> ev[k],
         next |-> IF k < Len(ev) THEN <<q, k + 1>>
                  ELSE IF cyclic THEN <<q, 1>> ELSE NoLink]] :
       ev \in UNION {[1..n -> PageEvents] : n \in 1..MaxPages}, cyclic \in BOOLEAN}

\* after start_requests: both queries are requested
InitBocc ==
    /\ pages \in {[q \in Queries |-> IF q = "past" THEN a ELSE b] :
                    a \in ChainsOf("past"), b \in ChainsOf("upcoming")}
    /\ queue = Enqueue({}, {}, StartUrls)
    /\ seen_urls = StartUrls
    /\ bemitted = << >>
    /\ log = << >>
    /\ TulsaIdle /\ UnionIdle /\ BoedIdle /\ CouncilIdle /\ CallIdle

\* parse(response) for the response of an outstanding request
Parse(url) ==
    /\ url \in queue
    /\ LET yields == ParseYields(url, PageOf(url), 1)
           requests == {y.url : y \in {yields[n] : n \in {m \in 1..Len(yields) :
                                                            yields[m].kind = "request"}}}
       IN  /\ bemitted' = bemitted \o OfKind(yields, "meeting")
           /\ log' = Append(log, [url |-> url, yields |-> yields])
           /\ queue' = Enqueue(queue \ {url}, seen_urls, requests)
           /\ seen_urls' = seen_urls \cup requests
    /\ UNCHANGED pages
    /\ UNCHANGED <<tulsaVars, unionVars, boedVars, councilVars, callVars>>

\* the download of an outstanding request fails: the request has no errback
FetchFails(url) ==
    /\ url \in queue
    /\ queue' = queue \ {url}
    /\ UNCHANGED <<pages, seen_urls, bemitted, log>>
    /\ UNCHANGED <<tulsaVars, unionVars, boedVars, councilVars, callVars>>

ParseSome == \E url \in queue : Parse(url)
FailSome == \E url \in queue : FetchFails(url)

NextBocc == ParseSome \/ FailSome

SpecBocc == InitBocc /\ [][NextBocc]_vars

\* every fetch resolves: an outstanding request is answered or fails
SpecBoccFair == SpecBocc /\ WF_vars(NextBocc)


(***************************************************************************)
(* BOED: parse of the Diligent Community API (tulok_boed.py).              *)
(*                                                                         *)
(* An item is [MeetingTypeName, MeetingDateTime, Id].                      *)
(***************************************************************************)
MaxBoed == 3        \* meeting objects in one BOED response

\* datetime.strptime(dt_str, "%Y-%m-%d %H:%M"), NoDT for ValueError
BoedStrptime(s) ==
    CASE s = <<"2025-06-16", SP, "18:30">> -> [day |-> 16, hour |-> 18, minute |-> 30]
      [] s = <<"2025-11-24", SP, "17:00">> -> [day |-> 24, hour |-> 17, minute |-> 0]
      [] OTHER -> NoDT

\* _parse_start
BoedParseStart(item) ==
    LET dt_str == Get(item, "MeetingDateTime", None)
    IN  IF Truthy(dt_str) THEN BoedStrptime(dt_str) ELSE NoDT

\* title=item.get("MeetingTypeName") or "Board Meeting"
BoedTitle(item) ==
    LET name == Get(item, "MeetingTypeName", None)
    IN  IF Truthy(name) THEN name ELSE <<"Board", SP, "Meeting">>

\* lines 33-47 with the id taken from the item's Id, not from _get_id
BoedMeetingIdFromItem(item, t) ==
    LET title == BoedTitle(item)
        start == BoedParseStart(item)
        status == BaseGetStatus(title, start, t)
    IN  IF status.raised
        THEN [raised |-> TRUE, value |-> << >>]
        ELSE [raised |-> FALSE,
              value |-> [title |-> title, start |-> start, status |-> status.value,
                         id |-> <<"tulok_boed", item.Id>>]]

\* lines 33-47 for one item: the Meeting, its status and its id
BoedMeeting(item, t) ==
    LET title == BoedTitle(item)
        start == BoedParseStart(item)
        status == BaseGetStatus(title, start, t)
    IN  IF status.raised \/ start = NoDT      \* _get_id: None.strftime
        THEN [raised |-> TRUE, value |-> << >>]
        ELSE [raised |-> FALSE,
              value |-> [title |-> title, start |-> start, status |-> status.value,
                         id |-> <<"tulok_boed", start, title>>]]

BoedShapes ==
    {[name |-> <<"Regular", SP, "Meeting">>, dt |-> <<"2025-06-16", SP, "18:30">>],
     [name |-> None,                         dt |-> <<"2025-11-24", SP, "17:00">>],
     [name |-> <<"Special", SP, "Meeting">>, dt |-> <<"2025-06-31", SP, "18:30">>],
     [name |-> <<"Cancelled", SP, "Meeting">>, dt |-> None],
     [name |-> <<"Regular", SP, "Meeting">>, dt |-> Absent],
     [name |-> <<"Regular", SP, "Meeting">>, dt |-> <<"2025-06-16">>]}

BoedItem(shape, i) ==
    [MeetingTypeName |-> shape.name, MeetingDateTime |-> shape.dt, Id |-> i]

\* after start_requests: the request of the meetings service is out
InitBoed ==
    /\ ed_pc = "start"
    /\ ed_data \in {[i \in 1..Len(shapes) |-> BoedItem(shapes[i], i)] :
                      shapes \in UNION {[1..n -> BoedShapes] : n \in 0..MaxBoed}}
    /\ ed_idx = 0
    /\ ed_emitted = << >>
    /\ TulsaIdle /\ UnionIdle /\ BoccIdle /\ CouncilIdle /\ CallIdle

\* parse(response) up to its loop: data = response.json()
BoedParseBegin ==
    /\ ed_pc = "start"
    /\ ed_idx' = 1
    /\ ed_pc' = IF ed_data = << >> THEN "done" ELSE "parse"
    /\ UNCHANGED <<ed_data, ed_emitted>>
    /\ UNCHANGED <<tulsaVars, unionVars, boccVars, councilVars, callVars>>

\* one iteration of the loop of parse (lines 32-49); an exception ends the
\* generator
BoedParseStep ==
    /\ ed_pc = "parse"
    /\ LET m == BoedMeeting(ed_data[ed_idx], now)
       IN  IF m.raised
           THEN ed_pc' = "raised" /\ UNCHANGED <<ed_idx, ed_emitted>>
           ELSE /\ ed_emitted' = Append(ed_emitted, [src |-> ed_idx, meeting |-> m.value])
                /\ ed_idx' = ed_idx + 1
                /\ ed_pc' = IF ed_idx = Len(ed_data) THEN "done" ELSE "parse"
    /\ UNCHANGED ed_data
    /\ UNCHANGED <<tulsaVars, unionVars, boccVars, councilVars, callVars>>

NextBoed == BoedParseBegin \/ BoedParseStep

SpecBoed == InitBoed /\ [][NextBoed]_vars


(***************************************************************************)
(* City Council: parse of the Granicus page (tulok_citycouncil.py).        *)
(*                                                                         *)
(* A row is [kind, title, date_text, in_progress, agenda, video]: a row of *)
(* a year panel ("past") or of the upcoming table ("upcoming"), its Name   *)
(* cell (None without text), its normalized Date cell, whether the Date    *)
(* cell holds an "In Progress" player link, and its link numbers.          *)
(***************************************************************************)
MaxRows == 3        \* rows of the Granicus page

\* the non-blank lexemes of a text
RECURSIVE Words(_)
Words(text) ==
    IF text = << >> THEN << >>
    ELSE IF Head(text) = SP THEN Words(Tail(text))
    ELSE <<Head(text)>> \o Words(Tail(text))

\* (\d{1,2}), of the pattern of line 153: the day of a token, 0 if none
CouncilDay(w) ==
    CASE w = "19," -> 19  [] w = "7," -> 7  [] w = "24," -> 24  [] w = "31," -> 31
      [] OTHER -> 0

\* (\d{1,2}):(\d{2}) of the pattern
CouncilClock(w) ==
    CASE w = "5:00" -> <<5, 0>>  [] w = "8:00" -> <<8, 0>>  [] w = "13:00" -> <<13, 0>>
      [] OTHER -> << >>

\* ([AaPp])\.?\s*[Mm]\.? and f"{ampm_letter.upper()}M"
CouncilAmPm(w) ==
    CASE w \in {"PM", "pm", "p.m."} -> "PM"
      [] w \in {"AM", "am", "a.m."} -> "AM"
      [] OTHER -> ""

\* ([A-Za-z]+): the words of letters of the model's date cells
CouncilAlpha(w) == w \in Months \cup {"Novembre", "Progress"}

\* re.search of line 152: the position of the first match in the words of
\* the text, 0 without one
CouncilDateMatch(w) ==
    LET hits == {i \in 1..Len(w) :
                   /\ i + 5 <= Len(w)
                   /\ CouncilAlpha(w[i])
                   /\ CouncilDay(w[i + 1]) # 0
                   /\ w[i + 2] = "2025"
                   /\ w[i + 3] = "-"
                   /\ CouncilClock(w[i + 4]) # << >>
                   /\ CouncilAmPm(w[i + 5]) # ""}
    IN  IF hits = {} THEN 0 ELSE CHOOSE i \in hits : \A j \in hits : i <= j

\* _parse_datetime: None without a match, and None when strptime of
\* "%B %d, %Y %I:%M %p" raises (caught at line 171)
ParseDatetime(date_text) ==
    LET w == Words(date_text)
        i == CouncilDateMatch(w)
        day == CouncilDay(w[i + 1])
        hm == CouncilClock(w[i + 4])
        pm == CouncilAmPm(w[i + 5]) = "PM"
    IN  IF ~Truthy(date_text) THEN NoDT
        ELSE IF i = 0 THEN NoDT
        ELSE IF w[i] \notin Months \/ day > DaysIn(w[i]) \/ hm[1] \notin 1..12 THEN NoDT
        ELSE [day |-> day,
              hour |-> (hm[1] % 12) + (IF pm THEN 12 ELSE 0),
              minute |-> hm[2]]

\* an href response.urljoin rejects with ValueError ("http://[AgendaViewer")
BrokenHref == -1

\* response.urljoin of lines 191 and 334 raises
CouncilLinksRaise(row) == row.agenda = BrokenHref

\* the links of a row (_parse_links, _parse_upcoming_event_links)
CouncilLinks(row) ==
    (IF row.agenda # 0
     THEN <<[title |-> "Agenda", href |-> [kind |-> "AgendaViewer", ref |-> row.agenda]]>>
     ELSE << >>)
    \o (IF row.video # 0
        THEN <<[title |-> "Video", href |-> [kind |-> "MediaPlayer", ref |-> row.video]]>>
        ELSE << >>)

\* title of lines 92-96 and 261-265
CouncilTitle(row) ==
    IF Truthy(row.title) /\ Strip(row.title) # Empty THEN Strip(row.title)
    ELSE <<"City", SP, "Council", SP, "Meeting">>

\* lines 110-124 and 296-310: the Meeting, its status and its id; [raised]
\* when one of the calls raises
CouncilMeeting(row, start, t) ==
    LET title == CouncilTitle(row)
        status == BaseGetStatus(title, start, t)
    IN  IF status.raised \/ start = NoDT \/ CouncilLinksRaise(row)
        THEN [raised |-> TRUE, value |-> << >>]
        ELSE [raised |-> FALSE,
              value |-> [title |-> title, start |-> start, links |-> CouncilLinks(row),
                         status |-> status.value,
                         id |-> <<"tulok_citycouncil", start, title>>]]

\* _parse_meeting_row without its try: what _parse_links or _get_status
\* raises leaves the function
ParseMeetingRowUnguarded(row, t) ==
    LET start == ParseDatetime(row.date_text)
        m == CouncilMeeting(row, start, t)
    IN  IF start = NoDT THEN [raised |-> FALSE, value |-> << >>]
        ELSE m

\* _parse_meeting_row: None for a row without a date and for a row whose
\* parsing raises (the except of line 126)
ParseMeetingRow(row, t) ==
    LET start == ParseDatetime(row.date_text)
        m == CouncilMeeting(row, start, t)
    IN  IF start = NoDT THEN [raised |-> FALSE, value |-> << >>]
        ELSE IF m.raised THEN [raised |-> FALSE, value |-> << >>]
        ELSE m

\* str.lower() of the words of a title
LowerWords(text) == [i \in 1..Len(Words(text)) |-> Lower(Words(text)[i])]

IsPrefix(p, w) == Len(p) <= Len(w) /\ SubSeq(w, 1, Len(p)) = p

\* the two searches of lines 237-239 on the stripped title
IsCouncilMeetingTitle(title) ==
    LET w == LowerWords(title)
        g1 == {<< >>, <<"regular">>, <<"tulsa", "city", "council">>, <<"council">>,
               <<"city", "council">>}
        g2 == {<< >>, <<"council">>, <<"regular">>, <<"emergency", "special">>, <<"special">>}
    IN  /\ \E a \in g1 : \E b \in g2 : IsPrefix(a \o b \o <<"meeting">>, w)
        /\ \A i \in 1..Len(w) : w[i] # "committee"

\* date_text.replace("In Progress", "").strip() of line 276
WithoutInProgress(date_text) ==
    Strip(SelectSeq(date_text, LAMBDA x : x # "In Progress"))

\* _parse_upcoming_event_row
ParseUpcomingEventRow(row, t) ==
    LET date_text == IF Truthy(row.date_text) THEN WithoutInProgress(row.date_text)
                     ELSE row.date_text
        start == ParseDatetime(date_text)
        m == CouncilMeeting(row, start, t)
    IN  IF ~Truthy(date_text) /\ row.in_progress THEN [raised |-> FALSE, value |-> << >>]
        ELSE IF start = NoDT THEN [raised |-> FALSE, value |-> << >>]
        ELSE IF m.raised THEN [raised |-> FALSE, value |-> << >>]
        ELSE m

\* what parse does with one row: a row of a year panel goes to
\* _parse_meeting_row, a row of the upcoming table through the title filter
\* of _parse_upcoming_events to _parse_upcoming_event_row
CouncilRow(row, t) ==
    IF row.kind = "past" THEN ParseMeetingRow(row, t)
    ELSE IF ~Truthy(row.title) THEN [raised |-> FALSE, value |-> << >>]
    ELSE IF ~IsCouncilMeetingTitle(Strip(row.title)) THEN [raised |-> FALSE, value |-> << >>]
    ELSE ParseUpcomingEventRow(row, t)

CouncilDate(day, clock, ampm) ==
    <<"November", SP, day, SP, "2025", SP, "-", SP, clock, SP, ampm>>

\* rows of the year panels
PastRows ==
    {[kind |-> "past", title |-> <<"Regular", SP, "Meeting">>,
      date_text |-> CouncilDate("19,", "5:00", "PM"), in_progress |-> FALSE,
      agenda |-> 3, video |-> 4],
     [kind |-> "past", title |-> None,
      date_text |-> CouncilDate("7,", "8:00", "AM"), in_progress |-> FALSE,
      agenda |-> 0, video |-> 5],
     [kind |-> "past", title |-> <<"Special", SP, "Meeting">>,
      date_text |-> CouncilDate("31,", "5:00", "PM"), in_progress |-> FALSE,
      agenda |-> 6, video |-> 0],
     [kind |-> "past", title |-> <<"Regular", SP, "Meeting">>,
      date_text |-> None, in_progress |-> FALSE, agenda |-> 0, video |-> 0],
     [kind |-> "past", title |-> <<"Regular", SP, "Meeting">>,
      date_text |-> CouncilDate("7,", "5:00", "PM"), in_progress |-> FALSE,
      agenda |-> BrokenHref, video |-> 4]}

\* rows of the upcoming table
UpcomingRows ==
    {[kind |-> "upcoming", title |-> <<"Regular", SP, "Council", SP, "Meeting">>,
      date_text |-> CouncilDate("24,", "5:00", "p.m."), in_progress |-> FALSE,
      agenda |-> 7, video |-> 0],
     [kind |-> "upcoming", title |-> <<"Budget", SP, "Committee", SP, "Meeting">>,
      date_text |-> CouncilDate("24,", "8:00", "AM"), in_progress |-> FALSE,
      agenda |-> 8, video |-> 0],
     [kind |-> "upcoming", title |-> <<"Special", SP, "Meeting">>,
      date_text |-> <<"In Progress">>, in_progress |-> TRUE,
      agenda |-> 0, video |-> 9],
     [kind |-> "upcoming", title |-> <<"Council", SP, "Meeting">>,
      date_text |-> CouncilDate("24,", "13:00", "PM"), in_progress |-> FALSE,
      agenda |-> 0, video |-> 0],
     [kind |-> "upcoming", title |-> <<"Special", SP, "Meeting">>,
      date_text |-> CouncilDate("24,", "8:00", "AM"), in_progress |-> FALSE,
      agenda |-> BrokenHref, video |-> 0]}

\* the page: the rows of the year panels in order, then the upcoming ones
CouncilPages ==
    {pr \o ur : pr \in SeqsOf(PastRows, MaxRows), ur \in SeqsOf(UpcomingRows, MaxRows)}

\* the request of start_urls is out
InitCouncil ==
    /\ cc_pc = "start"
    /\ cc_rows \in {pg \in CouncilPages : Len(pg) <= MaxRows}
    /\ cc_idx = 0
    /\ cc_emitted = << >>
    /\ TulsaIdle /\ UnionIdle /\ BoccIdle /\ BoedIdle /\ CallIdle

\* parse(response) up to its first row
CouncilParseBegin ==
    /\ cc_pc = "start"
    /\ cc_idx' = 1
    /\ cc_pc' = IF cc_rows = << >> THEN "done" ELSE "parse"
    /\ UNCHANGED <<cc_rows, cc_emitted>>
    /\ UNCHANGED <<tulsaVars, unionVars, boccVars, boedVars, callVars>>

\* parse(response) for one row: lines 69-72, and lines 229-243 with 76-77
CouncilParseStep ==
    /\ cc_pc = "parse"
    /\ LET m == CouncilRow(cc_rows[cc_idx], now)
       IN  IF m.raised
           THEN cc_pc' = "raised" /\ UNCHANGED <<cc_idx, cc_emitted>>
           ELSE /\ cc_emitted' = IF m.value = << >> THEN cc_emitted
                                 ELSE Append(cc_emitted, [src |-> cc_idx, meeting |-> m.value])
                /\ cc_idx' = cc_idx + 1
                /\ cc_pc' = IF cc_idx = Len(cc_rows) THEN "done" ELSE "parse"
    /\ UNCHANGED cc_rows
    /\ UNCHANGED <<tulsaVars, unionVars, boccVars, boedVars, callVars>>

NextCouncil == CouncilParseBegin \/ CouncilParseStep

SpecCouncil == InitCouncil /\ [][NextCouncil]_vars

(***************************************************************************)
(* The five harvests side by side: a run is a run of one of them.          *)
(***************************************************************************)
InitHarvests == InitTulsa \/ InitUnion \/ InitBocc \/ InitBoed \/ InitCouncil

NextHarvests == NextTulsa \/ NextUnion \/ NextBocc \/ NextBoed \/ NextCouncil

SpecHarvests == InitHarvests /\ [][NextHarvests]_vars


(***************************************************************************)
(* Properties of the Union PS harvest.                                     *)
(***************************************************************************)
EmittedAt(i) == {n \in 1..Len(uemitted) : uemitted[n].entry = i}
Entries == 1..Len(sources)

\* the records whose Board Report request was issued
Fetched == {i \in Entries : fetches[i].state # "none"}

VideoLinks(links) == {k \in 1..Len(links) : links[k].title = "Video"}

\* C4: a record with a Board Report link is emitted exactly once whatever
\* its fetch comes to: with the links it had on a failure or a 404, with
\* those links followed by at most one Video link on success.
C4_EmittedOnceWhateverTheFetch ==
    \A i \in Entries :
      LET base == CollectLinks(i, sources[i])
      IN  /\ Cardinality(EmittedAt(i)) <= 1
          /\ fetches[i].state \in {"pending", "resolved"} => EmittedAt(i) = {}
          /\ fetches[i].state = "done" =>
               /\ Cardinality(EmittedAt(i)) = 1
               /\ \A n \in EmittedAt(i) :
                    IF fetches[i].outcome.kind = "failure" \/ fetches[i].outcome.status = 404
                    THEN uemitted[n].links = base
                    ELSE /\ SubSeq(uemitted[n].links, 1, Len(base)) = base
                         /\ Len(uemitted[n].links) <= Len(base) + 1
                         /\ \A k \in (Len(base) + 1)..Len(uemitted[n].links) :
                              uemitted[n].links[k].title = "Video"

C4_Witness ==
    \E i \in Fetched : \E j \in Fetched :
      /\ fetches[i].state = "done" /\ fetches[i].outcome.status = 404
      /\ fetches[i].outcome.youtube
      /\ \A n \in EmittedAt(i) : VideoLinks(uemitted[n].links) = {}
      /\ fetches[j].state = "done" /\ fetches[j].outcome.status = 200
      /\ \E n \in EmittedAt(j) : Cardinality(VideoLinks(uemitted[n].links)) = 1

\* the entry parse_board_page is about to read is a record without a Board
\* Report link
PlainRecordNext ==
    /\ upc = "page" /\ pos <= Len(sources)
    /\ ~ParseStartFromText(sources[pos].text).raised
    /\ ParseStartFromText(sources[pos].text).value # NoDT
    /\ ParseStartFromText(sources[pos].text).value.day \notin seen_dates
    /\ ~HasBoardReport(LinksOf(pos, sources[pos]))

\* C5: a record with a Board Report link is not emitted before its fetch
\* has resolved and is emitted once it has; a record without one is emitted
\* by parse_board_page in the step that reads it, which no pending fetch
\* of another record blocks.
C5_DeferredUntilResolvedOthersImmediate ==
    /\ [](\A i \in Fetched : EmittedAt(i) # {} => fetches[i].state = "done")
    /\ [][\A i \in Fetched : (EmittedAt(i) = {} /\ fetches[i].state # "resolved")
                               => EmittedAt(i)' = {}]_vars
    /\ \A i \in 1..MaxSources :
         (i <= Len(sources) /\ fetches[i].state = "resolved")
           ~> (i <= Len(sources) /\ EmittedAt(i) # {})
    /\ [][(PlainRecordNext /\ pos' = pos + 1) =>
             uemitted' = Append(uemitted,
                                CreateMeeting(pos, ParseStartFromText(sources[pos].text).value,
                                              LinksOf(pos, sources[pos])))]_vars
    /\ [](upc = "page" /\ pos <= Len(sources) => ENABLED BoardPageStep)

C5_Witness ==
    \E i \in Fetched : \E j \in Entries :
      /\ i < j
      /\ fetches[i].state = "pending"
      /\ fetches[j].state = "none" /\ EmittedAt(j) # {}

(***************************************************************************)
(* Properties of the BOCC harvest.                                         *)
(***************************************************************************)
Requests(y) == OfKind(y, "request")

\* C6: handling a page yields one meeting per event of the page and then
\* exactly one request, for the page's nextLink, if and only if the page
\* carries one.
C6_OneRequestPerNextLinkAfterAllMeetings ==
    \A n \in 1..Len(log) :
      LET y == log[n].yields
          page == PageOf(log[n].url)
      IN  /\ Len(Requests(y)) = (IF page.next # NoLink THEN 1 ELSE 0)
          /\ \A k \in 1..Len(Requests(y)) : Requests(y)[k].url = page.next
          /\ Len(OfKind(y, "meeting")) = Len(page.events)
          /\ \A a \in 1..Len(y) : \A b \in 1..Len(y) :
               (y[a].kind = "request" /\ y[b].kind = "meeting") => b < a

NPages == Len(pages["past"]) + Len(pages["upcoming"])
Quiescent == queue = {}

\* C7: the harvest terminates: no page is fetched twice, eventually no
\* request is outstanding, and from then on no meeting is emitted.
C7_HarvestTerminates ==
    /\ [](Len(log) <= NPages)
    /\ <>[]Quiescent
    /\ [][Quiescent => bemitted' = bemitted /\ Quiescent']_vars

C7_Witness ==
    /\ Quiescent
    /\ \E q \in Queries :
         /\ Len(pages[q]) >= 2
         /\ pages[q][Len(pages[q])].next = NoLink
         /\ \A k \in 1..Len(pages[q]) : \E n \in 1..Len(log) : log[n].url = <<q, k>>
    /\ bemitted # << >>


(***************************************************************************)
(* Properties of all harvests.                                             *)
(***************************************************************************)
\* the source records no emitted meeting may come from: those without a
\* date the spider's date parser reads
TulsaUndated == {i \in 1..Len(meetings_data) :
                   ParseStart(meetings_data[i]).raised
                   \/ ParseStart(meetings_data[i]).value = NoDT}
UnionUndated == {i \in 1..Len(sources) :
                   ParseStartFromText(sources[i].text).raised
                   \/ ParseStartFromText(sources[i].text).value = NoDT}
BoedUndated == {i \in 1..Len(ed_data) : BoedParseStart(ed_data[i]) = NoDT}
CouncilUndated ==
    {i \in 1..Len(cc_rows) :
       IF Truthy(cc_rows[i].date_text)
       THEN ParseDatetime(WithoutInProgress(cc_rows[i].date_text)) = NoDT
       ELSE TRUE}

\* C12: every meeting a spider emits has a start, and no source record
\* without a parseable date is the source of an emitted meeting.
C12_EmittedMeetingsHaveStart ==
    /\ \A n \in 1..Len(emitted) :
         emitted[n].meeting.start # NoDT /\ emitted[n].src \notin TulsaUndated
    /\ \A n \in 1..Len(uemitted) :
         uemitted[n].start # NoDT /\ uemitted[n].entry \notin UnionUndated
    /\ \A n \in 1..Len(bemitted) :
         BoccParseStart(PageOf(bemitted[n].url).events[bemitted[n].k]) # NoDT
    /\ \A n \in 1..Len(ed_emitted) :
         ed_emitted[n].meeting.start # NoDT /\ ed_emitted[n].src \notin BoedUndated
    /\ \A n \in 1..Len(cc_emitted) :
         cc_emitted[n].meeting.start # NoDT /\ cc_emitted[n].src \notin CouncilUndated

C12_Witness ==
    /\ cc_pc = "done"
    /\ \E i \in CouncilUndated : \E n \in 1..Len(cc_emitted) : i < cc_emitted[n].src
    /\ \E i \in CouncilUndated : cc_rows[i].kind = "upcoming" /\ cc_rows[i].in_progress

\* C13: no date parser raises: each returns a timestamp or null for every
\* text, so no harvest ends on an exception of its date parser, also for
\* texts of the expected shape that denote no date (13/45/2025,
\* November 31, 2025).
C13_DateParsersNeverRaise ==
    /\ pc = "raised" => ~ParseStart(meetings_data[idx]).raised
    /\ upc = "raised" => ~ParseStartFromText(sources[pos].text).raised
    /\ cc_pc # "raised"

(***************************************************************************)
(* Properties of _get_status.                                              *)
(***************************************************************************)
StatusCalled == arguments.fn = "_get_status" /\ returned.called

TypeText == Get(arguments.item, "Meeting_Type", Empty)

\* the text holds a word of the given set, in any case
Mentions(text, words) == \E i \in 1..Len(text) : text[i] \in words

CancelWords == {"Canceled", "Cancelled", "CANCELLED", "Reschedule", "Rescheduled",
                "Postponed"}
TentativeWords == {"Tentative", "TENTATIVE"}
SpecialRegularWords == {"Special", "Regular", "REGULAR"}

Temporal(start) == IF start # NoDT /\ Before(start, now) THEN "passed" ELSE "tentative"

\* C15: a meeting-type text that holds a cancellation word resolves to
\* Cancelled, whatever the start and whatever else the text holds.
C15_CancellationWordsWin ==
    (StatusCalled /\ Mentions(TypeText, CancelWords)) =>
      returned = Result([raised |-> FALSE, value |-> "cancelled"])

C15_Witness ==
    /\ StatusCalled
    /\ Mentions(TypeText, CancelWords) /\ Mentions(TypeText, SpecialRegularWords)
    /\ arguments.start # NoDT /\ Before(arguments.start, now)
    /\ returned.value = "cancelled"

\* the call is made for a meeting that has a start, with a text that holds
\* a tentative word and no cancellation word
TentativeCase ==
    /\ StatusCalled
    /\ arguments.start # NoDT
    /\ Mentions(TypeText, TentativeWords) /\ ~Mentions(TypeText, CancelWords)

\* C16 as stated: a text that holds "tentative" and no cancellation word
\* resolves to Tentative, also for a start in the past.
C16_TentativeWordWins ==
    TentativeCase => returned = Result([raised |-> FALSE, value |-> "tentative"])

\* C16, amended: there is no rule for "tentative": such a text resolves by
\* the clock alone, Passed for a start in the past and Tentative otherwise,
\* with or without "special" or "regular" in it.
C16_TentativeWordIsNoRule ==
    TentativeCase => returned = Result([raised |-> FALSE, value |-> Temporal(arguments.start)])

C16_Witness ==
    /\ TentativeCase
    /\ ~Mentions(TypeText, SpecialRegularWords)
    /\ Before(arguments.start, now)
    /\ returned.value = "passed"

\* C17: an empty text, and a text with "special" or "regular" and no
\* cancellation word, resolve to Passed when start < now and to Tentative
\* otherwise; every call returns one of the four statuses, never null, and
\* never Confirmed.
C17_TemporalRuleAndStatusValues ==
    StatusCalled =>
      /\ ~returned.raised
      /\ returned.value \in {"tentative", "passed", "cancelled"}
      /\ (\/ ~Truthy(TypeText)
          \/ Mentions(TypeText, SpecialRegularWords) /\ ~Mentions(TypeText, CancelWords))
           => returned.value = Temporal(arguments.start)

(***************************************************************************)
(* Properties of _is_agency_match.                                         *)
(***************************************************************************)
MatchCalled == arguments.fn = "_is_agency_match" /\ returned.called

\* the lower-cased tokens of a text split on blanks and hyphens
Tokens(text) == {Lower(text[i]) : i \in {j \in 1..Len(text) : text[j] \notin {SP, "-"}}}

KeywordsOf(agency) == Tokens(agency) \ STOP_WORDS

Shared(agency, title) == KeywordsOf(agency) \cap Tokens(title)

\* C18: but for the city council, a row title matches exactly when it
\* shares at least min(2, number of agency keywords) non-stop-word tokens
\* with the agency name: one shared token is enough for a one-keyword
\* agency and not enough for an agency of three keywords.
C18_MatchIffEnoughSharedKeywords ==
    (MatchCalled /\ arguments.name # "tulok_city_council") =>
      LET k == Cardinality(KeywordsOf(arguments.agency))
          n == Cardinality(Shared(arguments.agency, arguments.title))
      IN  /\ returned.value = (n >= (IF k < 2 THEN k ELSE 2))
          /\ (k = 1 /\ n = 1) => returned.value
          /\ (k = 3 /\ n = 1) => ~returned.value

C18_Witness ==
    /\ MatchCalled
    /\ KeywordsOf(arguments.agency) = {"audit"}
    /\ arguments.title = <<"Audit", SP, "Committee", SP, "Meeting">>
    /\ returned.value

(***************************************************************************)
(* Properties of _parse_classification.                                    *)
(***************************************************************************)
ClassificationCalled == arguments.fn = "_parse_classification" /\ returned.called

\* the dash-separated parts of the title the call was made with
PartsOfTitle == IF Truthy(arguments.title) THEN SplitDash(arguments.title) ELSE << >>

\* the taxonomy classification whose keyword part n of the title holds, ""
\* when the title has no part n or the part holds none
KeywordOf(n) ==
    IF n > Len(PartsOfTitle) THEN ""
    ELSE LET c == ClassifyPart(Strip(PartsOfTitle[n]), 1)
         IN  IF c = NOT_CLASSIFIED THEN "" ELSE c

\* C19: the second part of a title decides whenever it holds a taxonomy
\* keyword, whatever the first part holds; the first part is used only when
\* the second holds none.
C19_SecondPartDecides ==
    ClassificationCalled =>
      /\ KeywordOf(2) # "" => returned.value = KeywordOf(2)
      /\ (KeywordOf(2) = "" /\ KeywordOf(1) # "") => returned.value = KeywordOf(1)
      /\ arguments.title = <<"Urban", SP, "Development", SP, "-", SP, "Committee">>
           => returned.value = "Committee"
      /\ arguments.title = <<"Committee", SP, "-", SP, "Budget">>
           => returned.value = "Committee"
      /\ arguments.title = <<"Tulsa", SP, "Board", SP, "-", SP, "Committee">>
           => returned.value = "Committee"

C19_Witness ==
    /\ ClassificationCalled
    /\ KeywordOf(1) = "Board" /\ KeywordOf(2) = "Committee"
    /\ returned.value = "Committee"

\* C20: _parse_classification never fails; it returns Unclassified exactly
\* when the title is empty or neither of its first two parts holds a
\* taxonomy keyword, whatever later parts hold, and a taxonomy
\* classification otherwise.
C20_UnclassifiedIffNoKeywordInFirstTwoParts ==
    ClassificationCalled =>
      /\ ~returned.raised
      /\ returned.value = NOT_CLASSIFIED <=> (KeywordOf(1) = "" /\ KeywordOf(2) = "")
      /\ returned.value # NOT_CLASSIFIED =>
           \E k \in 1..(Len(CLASSIFICATIONS) - 1) : returned.value = CLASSIFICATIONS[k].name

C20_Witness ==
    /\ ClassificationCalled
    /\ Len(PartsOfTitle) = 3
    /\ KeywordOf(1) = "" /\ KeywordOf(2) = "" /\ KeywordOf(3) # ""
    /\ returned.value = NOT_CLASSIFIED

(***************************************************************************)
(* Properties of _parse_links.                                             *)
(***************************************************************************)
LinksCalled == arguments.fn = "_parse_links" /\ returned.called

IdAgenda(item) ==
    [title |-> "Agenda", href |-> [kind |-> "DocumentIdentifiers", ref |-> item.Agenda_ID]]

AnchorAgenda(item) ==
    [title |-> "Agenda", href |-> [kind |-> "AgendaViewer", ref |-> item.Agenda_Link]]

VideoOf(item) ==
    [title |-> "Video", href |-> [kind |-> "MediaPlayer", ref |-> item.Video_Link]]

Count(b) == IF b THEN 1 ELSE 0

\* C21: the links are the Agenda link built from Agenda_ID, the Agenda link
\* of Agenda_Link and the Video link of Video_Link, in this order, each one
\* exactly when its field has a value; both Agenda links are kept when both
\* fields have a value, and there is no other link.
C21_LinksInOrderNoSuppression ==
    LinksCalled =>
      LET item == arguments.item
          links == returned.value
          hasId == item.Agenda_ID # 0
          hasAnchor == item.Agenda_Link # 0
          hasVideo == item.Video_Link # 0
      IN  /\ ~returned.raised
          /\ Len(links) = Count(hasId) + Count(hasAnchor) + Count(hasVideo)
          /\ hasId => links[1] = IdAgenda(item)
          /\ hasAnchor => links[1 + Count(hasId)] = AnchorAgenda(item)
          /\ hasVideo => links[Len(links)] = VideoOf(item)

C21_Witness ==
    /\ LinksCalled
    /\ arguments.item.Agenda_ID = 31465
    /\ arguments.item.Agenda_Link = 7
    /\ arguments.item.Video_Link = 8
    /\ returned.value = <<IdAgenda(arguments.item), AnchorAgenda(arguments.item),
                          VideoOf(arguments.item)>>

(***************************************************************************)
(* Properties of _parse_start.                                             *)
(***************************************************************************)
StartCalled == arguments.fn = "_parse_start" /\ returned.called

\* the record is a fragment of the API (no Meeting_Date_Time) whose
\* Meeting_Date is a MM/DD/YYYY date, blanks around it aside
DatedFragment ==
    /\ arguments.item.Meeting_Date_Time = NoDT
    /\ IsText(arguments.item.Meeting_Date)
    /\ Strip(arguments.item.Meeting_Date) \in {D1, D2}

DayOfFragment == IF Strip(arguments.item.Meeting_Date) = D1 THEN 20 ELSE 21

\* the clock a twelve-hour time denotes, written with or without a blank
\* before the meridiem
ClockOf(time) ==
    CASE time \in {<<"11:30", "AM">>, <<"11:30", SP, "AM">>} -> <<11, 30>>
      [] time \in {<<"5:00", "PM">>, <<"5:00", SP, "PM">>}   -> <<17, 0>>
      [] OTHER -> << >>

Spaced(time) == Len(time) = 3 /\ time[2] = SP

\* C22: with a valid date, a Meeting_Time with one blank before the meridiem
\* ("5:00 PM") gives the start its form without the blank gives: that hour
\* and minute on that date.
C22_SpacedTimeParsedAsUnspaced ==
    (StartCalled /\ DatedFragment /\ IsText(arguments.item.Meeting_Time)
       /\ Spaced(Strip(arguments.item.Meeting_Time))
       /\ ClockOf(Strip(arguments.item.Meeting_Time)) # << >>) =>
      LET hm == ClockOf(Strip(arguments.item.Meeting_Time))
      IN  /\ ~returned.raised
          /\ returned.value = [day |-> DayOfFragment, hour |-> hm[1], minute |-> hm[2]]

\* the Meeting_Time is missing, null, empty, or no time of the format the
\* code reads (%I:%M%p)
NoReadableTime ==
    \/ ~Truthy(arguments.item.Meeting_Time)
    \/ /\ IsText(arguments.item.Meeting_Time)
       /\ Strip(arguments.item.Meeting_Time) \notin {<<"11:30", "AM">>, <<"5:00", "PM">>}

\* C23: with a valid date and a Meeting_Time that is absent, empty or of no
\* accepted format, _parse_start raises nothing and answers midnight of the
\* parsed date: the record keeps a start and is not rejected.
C23_UnreadableTimeGivesMidnight ==
    (StartCalled /\ DatedFragment /\ NoReadableTime) =>
      /\ ~returned.raised
      /\ returned.value = [day |-> DayOfFragment, hour |-> 0, minute |-> 0]

C23_Witness ==
    /\ StartCalled /\ DatedFragment
    /\ arguments.item.Meeting_Time = <<"TBD">>
    /\ returned.value = [day |-> 20, hour |-> 0, minute |-> 0]

(***************************************************************************)
(* Properties of _parse_start_from_text.                                   *)
(***************************************************************************)
FromTextCalled == arguments.fn = "_parse_start_from_text" /\ returned.called

\* the month and the day token of the date the text holds
MonthAt == IF arguments.text[1] = "Agenda" THEN 3 ELSE 1
MonthOfText == arguments.text[MonthAt]
TokenOfText == arguments.text[MonthAt + 2]

\* the text holds a date whose day token is written with "l" or "I" for a
\* "1" and is a number once they are read as "1"
TypoDate ==
    /\ Len(arguments.text) >= 5
    /\ \E k \in 1..Len(DayChars(TokenOfText)) : DayChars(TokenOfText)[k] \in {"l", "I"}
    /\ \A k \in 1..Len(DayChars(TokenOfText)) :
          DayChars(TokenOfText)[k] \in {"l", "I", "0", "1", "2", "3", "9"}

\* the value of a digit, "l" and "I" read as 1
Read(c) ==
    CASE c \in {"l", "I", "1"} -> 1  [] c = "0" -> 0  [] c = "2" -> 2
      [] c = "3" -> 3  [] c = "9" -> 9

\* the day the token names once "l" and "I" are read as "1"
IntendedDay ==
    LET cs == DayChars(TokenOfText)
    IN  IF Len(cs) = 1 THEN Read(cs[1]) ELSE 10 * Read(cs[1]) + Read(cs[2])

LastDayOf(month) == CASE month = "October" -> 31 [] month = "November" -> 30

\* C24: a day token written with "l" or "I" for the digit 1 is parsed as the
\* token written with "1" is: the start is that day at 19:00 ("November l9,
\* 2025" is day 19), and a day the month does not have is the same error as
\* with "1" ("November 3l" as "November 31").
C24_TypoDayReadAsOne ==
    (FromTextCalled /\ TypoDate) =>
      IF IntendedDay \in 1..LastDayOf(MonthOfText)
      THEN /\ ~returned.raised
           /\ returned.value = [day |-> IntendedDay, hour |-> 19, minute |-> 0]
      ELSE returned.raised

C24_Witness ==
    /\ FromTextCalled
    /\ arguments.text = <<"November", SP, "l9", ",", SP, "2025">>
    /\ returned.value = [day |-> 19, hour |-> 19, minute |-> 0]

(***************************************************************************)
(* Properties of the id of a Tulsa city meeting.                           *)
(***************************************************************************)
SameNameStartTitle(m, n) == m.title = n.title /\ m.start = n.start

\* every meeting emitted so far is where and what it was
EmittedKept ==
    /\ Len(emitted') >= Len(emitted)
    /\ \A k \in 1..Len(emitted) : emitted'[k] = emitted[k]

\* C25: two emitted meetings of the spider with equal start and title have
\* equal ids, whatever their links, status and place in the batch, and a
\* meeting once emitted, its id with it, never changes.
C25_IdOfNameStartTitleOnly ==
    /\ [](\A i, j \in 1..Len(emitted) :
            SameNameStartTitle(emitted[i].meeting, emitted[j].meeting)
              => emitted[i].meeting.id = emitted[j].meeting.id)
    /\ [][EmittedKept]_vars

C25_Witness ==
    \E i, j \in 1..Len(emitted) :
      /\ i < j
      /\ SameNameStartTitle(emitted[i].meeting, emitted[j].meeting)
      /\ emitted[i].meeting.links # emitted[j].meeting.links
      /\ emitted[i].meeting.id = emitted[j].meeting.id

(***************************************************************************)
(* Properties of the City Council harvest.                                 *)
(***************************************************************************)
\* the date cells of the model that hold a date of the calendar
ReadableCouncilDates ==
    {CouncilDate("19,", "5:00", "PM"), CouncilDate("7,", "8:00", "AM"),
     CouncilDate("7,", "5:00", "PM"), CouncilDate("24,", "5:00", "p.m."),
     CouncilDate("24,", "8:00", "AM")}

\* an upcoming row of a committee, which the title filter leaves out
CommitteeRow(row) ==
    row.kind = "upcoming" /\ IsText(row.title) /\ Contains(row.title, "Committee")

\* a row the harvest has to skip: no readable date (none, "In Progress",
\* a day or an hour that does not exist), or a link that makes parsing raise
SkippedRow(row) ==
    \/ row.date_text \notin ReadableCouncilDates
    \/ row.agenda = BrokenHref

\* C26: no exception leaves parse, a row that has no readable date, is in
\* progress without a date or raises while parsed yields nothing, and every
\* other row of the year panels and every other council row of the upcoming
\* table is emitted, once, in the order of the page.
C26_BadRowsSkippedOthersEmitted ==
    /\ cc_pc # "raised"
    /\ cc_pc \in {"parse", "done"} =>
         LET done == IF cc_pc = "done" THEN Len(cc_rows) ELSE cc_idx - 1
             due == {i \in 1..done : ~SkippedRow(cc_rows[i]) /\ ~CommitteeRow(cc_rows[i])}
         IN  /\ {cc_emitted[k].src : k \in 1..Len(cc_emitted)} = due
             /\ Len(cc_emitted) = Cardinality(due)
             /\ \A k \in 1..Len(cc_emitted) - 1 : cc_emitted[k].src < cc_emitted[k + 1].src

\* a page on which a row that raises and a row in progress each stand
\* before a row that is emitted
C26_Witness ==
    /\ cc_pc = "done"
    /\ \E i, j, k \in 1..Len(cc_rows) :
         /\ i < j /\ j < k
         /\ cc_rows[i].agenda = BrokenHref
         /\ cc_rows[j].in_progress
         /\ \E n \in 1..Len(cc_emitted) : cc_emitted[n].src = k

(***************************************************************************)
(* Properties of the time notes of the BOCC harvest.                       *)
(***************************************************************************)
\* C27: every meeting the BOCC harvest emits carries time notes: the text
\* of the meeting schedule of the county info page, which is not empty.
C27_TimeNotesFromInfoPage ==
    \A n \in 1..Len(bemitted) : bemitted[n].time_notes # Empty

(***************************************************************************)
(* Properties of deduplication followed by the Annual filter.              *)
(***************************************************************************)
\* fragment i of the API is not Annual, has a date and a time that can be
\* read, and the fragment right after it is an Annual one of that date and
\* time
ShadowedByAnnual(i) ==
    /\ i < Len(ApiIn)
    /\ ~MarkedAnnual(ApiIn[i]) /\ MarkedAnnual(ApiIn[i + 1])
    /\ SameTimed(ApiIn[i], ApiIn[i + 1])
    /\ StrptimeDate(DateOf(ApiIn[i])) # -1

\* C28: when the harvest of a response of well-formed fragments has ended,
\* every fragment that is not Annual has a meeting emitted for its date and
\* time, also when an Annual fragment of that date and time comes right
\* after it.
C28_NonAnnualNotLostToAnnual ==
    (pc = "done" /\ response.ok /\ NoneRaises(ApiIn)
       /\ \A k \in 1..Len(ApiIn) : WellFormed(ApiIn[k])) =>
      \A i \in 1..Len(ApiIn) :
        ShadowedByAnnual(i) =>
          \E n \in 1..Len(emitted) :
            emitted[n].meeting.start = ParseStart(ApiIn[i]).value

(***************************************************************************)
(* Properties of _is_agency_match for rows that share nothing.             *)
(***************************************************************************)
\* C29: but for the city council, a row title that shares no token other
\* than stop words with the agency name is not matched, whatever the
\* agency, an agency whose name holds only stop words included.
C29_NoSharedKeywordNoMatch ==
    (MatchCalled /\ arguments.name # "tulok_city_council"
       /\ Shared(arguments.agency, arguments.title) = {}) =>
      returned.value = FALSE

(***************************************************************************)
(* Properties of the dates of the Union PS harvest.                        *)
(***************************************************************************)
\* the entries of the page whose text gives the date of day d
EntriesOn(d) ==
    {i \in Entries : LET r == ParseStartFromText(sources[i].text)
                     IN  ~r.raised /\ r.value # NoDT /\ r.value.day = d}

\* C30: no two emitted meetings, those of the Board Report callbacks and
\* errbacks included, fall on one date; an emitted meeting comes from the
\* first entry of its date in the order of the sources, in which the past
\* agenda entries stand before the upcoming ones.
C30_OneMeetingPerDateFromFirstEntry ==
    /\ \A m, n \in 1..Len(uemitted) :
         m # n => uemitted[m].start.day # uemitted[n].start.day
    /\ \A n \in 1..Len(uemitted) :
         /\ uemitted[n].entry \in EntriesOn(uemitted[n].start.day)
         /\ \A j \in EntriesOn(uemitted[n].start.day) : uemitted[n].entry <= j
    /\ \A i, j \in Entries : (i < j /\ sources[j].anchor) => sources[i].anchor

\* a past entry with a Board Report and an upcoming entry of the same date:
\* the page is read to its end, the fetch is answered, and the one meeting
\* of the date is the one of the past entry
C30_Witness ==
    /\ upc = "exhausted"
    /\ \E i, j \in Entries :
         /\ i < j
         /\ sources[i].anchor /\ ~sources[j].anchor
         /\ EntriesOn(19) = {i, j}
         /\ fetches[i].state = "done"
         /\ EmittedAt(i) # {} /\ EmittedAt(j) = {}

====
